---- MODULE Spec2Model ----
(***************************************************************************)
(* Payment pipeline of the hours-worked tracker, event-sourced variant:    *)
(*   - Pipeline.calculateTotals (client), which derives the five stage     *)
(*     totals from the WorkSessions and EmailPayouts records and the       *)
(*     clock;                                                              *)
(*   - scanEmails / matchChaseDepositsToTransfers (Apps Script backend),   *)
(*     which ingest parsed e-mails into the EmailPayouts sheet and pull    *)
(*     the EstimatedArrival of an in-progress transfer to the date of a    *)
(*     matching bank deposit;                                              *)
(*   - two overlapping executions of scanEmails;                           *)
(*   - the submit handlers of the client's forms and App._submitting;      *)
(*   - SheetsAPI.getAll / save / remove over local storage and the sheet;  *)
(*   - the stateful variant: payments with a status, Pipeline.autoAdvance, *)
(*     App.advancePayment and the backend's matchAndAdvancePipeline.       *)
(*                                                                         *)
(* Time is counted in whole seconds (the code computes in milliseconds;    *)
(* every constant it adds is a whole number of seconds).  Money is counted *)
(* in whole dollars.  A JavaScript number that is NaN and a Date that is   *)
(* invalid are represented explicitly, because the code's comparisons      *)
(* with them are all false.                                                *)
(***************************************************************************)
EXTENDS Integers, Sequences, FiniteSets, TLC

VARIABLES
    now,            \* the clock read by new Date()
    workSessions,   \* records of the WorkSessions tab, in row order
    emailSheet,     \* data rows of the EmailPayouts tab, in row order
    mailbox,        \* messages the three GmailApp.search calls return
    totals,         \* the stage totals last rendered by renderPipeline
    cooldown,       \* the cooldown status last rendered by renderPipeline
    addDays,        \* the activation of addBusinessDays: its arguments and locals
    scans,          \* the executions of scanEmails: where each one is, and its locals
    submitting,     \* App._submitting
    handlers,       \* the submit handlers that are awaiting, in order of invocation
    saves,          \* how many handlers called save, called update, returned at
                    \* the guard, and ran to their end
    local,          \* SheetsAPI: the records of one tab in localStorage and _sessionCache
    remote,         \* the rows of that tab in the spreadsheet
    issued,         \* how many record ids SheetsAPI.save has generated
    kept,           \* the ids for which save has returned and remove was not called
    listed,         \* what the last SheetsAPI.getAll of the tab returned
    payments,       \* stateful variant: the rows of the Payments tab, in row order
    advancing,      \* App.advancePayment between its read and its update
    loading         \* App.loadData between its read and its updates

\* The client's form handling
formVars == <<submitting, handlers, saves>>

\* SheetsAPI and the tab behind it
apiVars == <<local, remote, issued, kept, listed>>

\* The stateful pipeline
pipelineVars == <<payments, advancing, loading>>

\* What the dashboard and the one-at-a-time ingestion never write
others == <<scans, formVars, apiVars, pipelineVars>>

vars == <<now, workSessions, emailSheet, mailbox, totals, cooldown, addDays, others>>

-----------------------------------------------------------------------------
(* Program constants *)

PROJECT_PAYOUT_HOURS == 168
TASK_PAYOUT_HOURS == 72

HOUR == 60 * 60
DAY == 24 * HOUR

-----------------------------------------------------------------------------
(* Bounds of the model *)

MaxElapsed == 1      \* seconds the clock advances past Epoch
MaxSessions == 2     \* work sessions stored (calculator)
MaxRows == 2         \* EmailPayouts rows stored (calculator)
MaxMail == 2         \* messages in the mailbox

Epoch == 400 * HOUR  \* the clock at the start of a behaviour

-----------------------------------------------------------------------------
(* JavaScript values *)

\* A stored amount: a number, a string that starts with a number ("100.00"),
\* or anything parseFloat cannot read ("", undefined, "abc", NaN).
Num(n) == [tag |-> "number", val |-> n]
NumStr(n) == [tag |-> "string", val |-> n]
Junk == [tag |-> "junk", val |-> 0]

\* A JavaScript number: NaN or an integer.
NaN == [nan |-> TRUE, val |-> 0]
Number(n) == [nan |-> FALSE, val |-> n]

\* parseFloat(x)
parseFloat(x) ==
    IF x.tag \in {"number", "string"} THEN Number(x.val) ELSE NaN

\* n || 0 : NaN and 0 are falsy
OrZero(n) == IF n.nan \/ n.val = 0 THEN 0 ELSE n.val

\* A stored timestamp: an ISO string, the empty string, or an unparsable one.
Iso(t) == [tag |-> "iso", t |-> t]
NoTime == [tag |-> "empty", t |-> 0]
BadTime == [tag |-> "bad", t |-> 0]

\* x ? new Date(x) : null -- null, an invalid Date, or a Date
NullDate == [kind |-> "null", t |-> 0]
InvalidDate == [kind |-> "invalid", t |-> 0]
DateAt(t) == [kind |-> "date", t |-> t]

NewDateOrNull(x) ==
    CASE x.tag = "empty" -> NullDate
      [] x.tag = "bad" -> InvalidDate
      [] OTHER -> DateAt(x.t)

\* date.getTime() + ms : an invalid Date stays invalid
PlusSeconds(d, s) == IF d.kind = "date" THEN DateAt(d.t + s) ELSE d

\* t < d and t >= d for the clock t and a non-null Date d: both are false
\* when d is invalid
ClockBefore(t, d) == d.kind = "date" /\ t < d.t
ClockAtOrAfter(t, d) == d.kind = "date" /\ t >= d.t

Max(a, b) == IF a >= b THEN a ELSE b

Reverse(seq) == [i \in 1..Len(seq) |-> seq[Len(seq) + 1 - i]]

-----------------------------------------------------------------------------
(* Pipeline.calculateTotals *)

\* Variant: the magnitude of the parsed earnings (Math.abs)
SessionEarningsAbs(s) ==
    LET n == OrZero(parseFloat(s.earnings)) IN IF n < 0 THEN 0 - n ELSE n

\* const earnings = parseFloat(s.earnings) || 0
SessionEarnings(s) == OrZero(parseFloat(s.earnings))

\* Variant: every session waits the project latency
PayoutHoursProjectOnly(s) == PROJECT_PAYOUT_HOURS

\* s.type === 'task' ? CONFIG.TASK_PAYOUT_HOURS : CONFIG.PROJECT_PAYOUT_HOURS
PayoutHours(s) ==
    IF s.type = "task" THEN TASK_PAYOUT_HOURS ELSE PROJECT_PAYOUT_HOURS

\* Variant: the threshold instant itself still counts as waiting (<=)
StillWaitingInclusive(s, t) ==
    LET submittedAt == NewDateOrNull(s.submittedAt)
        payoutExpected == PlusSeconds(submittedAt, PayoutHours(s) * HOUR)
    IN  IF submittedAt.kind = "null"
        THEN FALSE
        ELSE payoutExpected.kind = "date" /\ t <= payoutExpected.t

\* The branch a session with positive earnings takes: TRUE when it is added
\* to sessionsStillWaiting, FALSE when it is added to sessionsPastWaiting.
StillWaiting(s, t) ==
    LET submittedAt == NewDateOrNull(s.submittedAt)
        payoutExpected == PlusSeconds(submittedAt, PayoutHours(s) * HOUR)
    IN  IF submittedAt.kind = "null"
        THEN FALSE
        ELSE ClockBefore(t, payoutExpected)

\* workSessions.forEach(...), from session i on; acc holds the two sums
RECURSIVE SessionSums(_, _, _, _)
SessionSums(ws, t, i, acc) ==
    IF i > Len(ws) THEN acc
    ELSE LET s == ws[i]
             earnings == SessionEarnings(s)
         IN  IF earnings <= 0
             THEN SessionSums(ws, t, i + 1, acc)
             ELSE IF StillWaiting(s, t)
                  THEN SessionSums(ws, t, i + 1,
                         [acc EXCEPT !.sessionsStillWaiting = @ + earnings])
                  ELSE SessionSums(ws, t, i + 1,
                         [acc EXCEPT !.sessionsPastWaiting = @ + earnings])

\* const amount = parseFloat(e.amount) || 0
EventAmount(e) == OrZero(parseFloat(e.amount))

\* Variant: a transfer counts as arrived until its estimatedArrival
TransferCompletedUntilArrival(e, t) ==
    LET estimatedArrival == NewDateOrNull(e.estimatedArrival)
    IN  estimatedArrival.kind # "null" /\ ~ClockAtOrAfter(t, estimatedArrival)

\* Variant: a transfer counts as arrived only after its estimatedArrival
TransferCompletedStrictlyAfter(e, t) ==
    LET estimatedArrival == NewDateOrNull(e.estimatedArrival)
    IN  estimatedArrival.kind = "date" /\ t > estimatedArrival.t

\* Variant: a transfer without an estimatedArrival counts as arrived
TransferCompletedWhenAbsent(e, t) ==
    LET estimatedArrival == NewDateOrNull(e.estimatedArrival)
    IN  estimatedArrival.kind = "null" \/ ClockAtOrAfter(t, estimatedArrival)

\* estimatedArrival && now >= estimatedArrival
TransferCompleted(e, t) ==
    LET estimatedArrival == NewDateOrNull(e.estimatedArrival)
    IN  estimatedArrival.kind # "null" /\ ClockAtOrAfter(t, estimatedArrival)

\* emailPayouts.forEach(...), from event i on; acc holds the three sums
RECURSIVE EmailSums(_, _, _, _)
EmailSums(ep, t, i, acc) ==
    IF i > Len(ep) THEN acc
    ELSE LET e == ep[i]
             amount == EventAmount(e)
         IN  IF amount <= 0
             THEN EmailSums(ep, t, i + 1, acc)
             ELSE IF e.source = "dataannotation"
                  THEN EmailSums(ep, t, i + 1, [acc EXCEPT !.daTotal = @ + amount])
             ELSE IF e.source = "paypal_transfer"
                  THEN IF TransferCompleted(e, t)
                       THEN EmailSums(ep, t, i + 1,
                              [acc EXCEPT !.transfersCompleted = @ + amount])
                       ELSE EmailSums(ep, t, i + 1,
                              [acc EXCEPT !.transfersInProgress = @ + amount])
             ELSE EmailSums(ep, t, i + 1, acc)

\* Variant: the difference without the clamp
PendingPayoutUnclamped(sessionsPastWaiting, daTotal) ==
    sessionsPastWaiting - daTotal

\* Math.max(0, sessionsPastWaiting - daTotal)
PendingPayout(sessionsPastWaiting, daTotal) ==
    Max(0, sessionsPastWaiting - daTotal)

\* Variant: the difference without the clamp
PaidOutUnclamped(daTotal, transfersCompleted, transfersInProgress) ==
    daTotal - transfersCompleted - transfersInProgress

\* Variant: only the completed transfers are subtracted
PaidOutLessCompleted(daTotal, transfersCompleted, transfersInProgress) ==
    Max(0, daTotal - transfersCompleted)

\* Variant: only the transfers in progress are subtracted
PaidOutLessInProgress(daTotal, transfersCompleted, transfersInProgress) ==
    Max(0, daTotal - transfersInProgress)

\* Math.max(0, daTotal - transfersCompleted - transfersInProgress)
PaidOut(daTotal, transfersCompleted, transfersInProgress) ==
    Max(0, daTotal - transfersCompleted - transfersInProgress)

calculateTotals(ws, ep, t) ==
    LET s == SessionSums(ws, t, 1,
                 [sessionsStillWaiting |-> 0, sessionsPastWaiting |-> 0])
        m == EmailSums(ep, t, 1,
                 [daTotal |-> 0, transfersCompleted |-> 0, transfersInProgress |-> 0])
    IN  [submitted |-> s.sessionsStillWaiting,
         pending_payout |-> PendingPayout(s.sessionsPastWaiting, m.daTotal),
         paid_out |-> PaidOut(m.daTotal, m.transfersCompleted, m.transfersInProgress),
         transferring |-> m.transfersInProgress,
         in_bank |-> m.transfersCompleted]

-----------------------------------------------------------------------------
(* Pipeline.getPayoutCooldown *)

DA_PAYOUT_COOLDOWN_HOURS == 72

\* .filter(e => e.source === 'dataannotation' && e.receivedAt)
HasPayoutTime(e) == e.source = "dataannotation" /\ e.receivedAt.tag # "empty"

\* a.localeCompare(b) > 0 for two non-empty timestamps: ISO strings of one
\* format collate in time order; the unparsable text collates after them
CollatesAfter(a, b) ==
    \/ a.tag = "bad" /\ b.tag = "iso"
    \/ a.tag = "iso" /\ b.tag = "iso" /\ a.t > b.t

\* Variant: the first payout as listed, without the sort
FirstListed(daPayouts) == daPayouts[1]

\* .sort((a, b) => b.receivedAt.localeCompare(a.receivedAt))[0]: the first
\* element of the stable descending sort of a non-empty list
MostRecentFirst(daPayouts) ==
    daPayouts[CHOOSE i \in 1..Len(daPayouts) :
                \A j \in 1..Len(daPayouts) :
                    /\ ~CollatesAfter(daPayouts[j].receivedAt, daPayouts[i].receivedAt)
                    /\ j < i => CollatesAfter(daPayouts[i].receivedAt,
                                              daPayouts[j].receivedAt)]

\* nextAvailable - now, in seconds: NaN when nextAvailable is invalid
Remaining(nextAvailable, t) ==
    IF nextAvailable.kind = "date" THEN Number(nextAvailable.t - t) ELSE NaN

\* Variant: available only after the instant has passed
CooldownOverStrict(remaining) == ~remaining.nan /\ remaining.val < 0

\* remainingMs <= 0 (false for NaN)
CooldownOver(remaining) == ~remaining.nan /\ remaining.val <= 0

\* Variant: the minutes are not reduced modulo the hour
CooldownTextRawMinutes(remaining) ==
    IF remaining.nan THEN "NaNm"
    ELSE LET totalMinutes == remaining.val \div 60
         IN  ToString(totalMinutes \div (60 * 24)) \o "d "
               \o ToString((totalMinutes % (60 * 24)) \div 60) \o "h "
               \o ToString(totalMinutes) \o "m"

\* days / hours / minutes and the label
CooldownText(remaining) ==
    IF remaining.nan THEN "NaNm"
    ELSE LET totalMinutes == remaining.val \div 60
             days == totalMinutes \div (60 * 24)
             hours == (totalMinutes % (60 * 24)) \div 60
             minutes == totalMinutes % 60
         IN  IF days > 0
             THEN ToString(days) \o "d " \o ToString(hours) \o "h "
                    \o ToString(minutes) \o "m"
             ELSE IF hours > 0
             THEN ToString(hours) \o "h " \o ToString(minutes) \o "m"
             ELSE ToString(minutes) \o "m"

\* Variant: the colours in the opposite order
CooldownColorReversed(remaining) ==
    IF ~remaining.nan /\ remaining.val > 48 * HOUR THEN "text-yellow-400"
    ELSE IF ~remaining.nan /\ remaining.val > 24 * HOUR THEN "text-orange-400"
    ELSE "text-red-400"

\* remainingHours > 48 / > 24 (both false for NaN)
CooldownColor(remaining) ==
    IF ~remaining.nan /\ remaining.val > 48 * HOUR THEN "text-red-400"
    ELSE IF ~remaining.nan /\ remaining.val > 24 * HOUR THEN "text-orange-400"
    ELSE "text-yellow-400"

CooldownAvailable ==
    [available |-> TRUE, text |-> "Available!", color |-> "text-emerald-400"]

getPayoutCooldown(emailPayouts, t) ==
    LET daPayouts == SelectSeq(emailPayouts, HasPayoutTime)
    IN  IF Len(daPayouts) = 0 THEN CooldownAvailable
        ELSE LET lastPayout == NewDateOrNull(MostRecentFirst(daPayouts).receivedAt)
                 nextAvailable ==
                     PlusSeconds(lastPayout, DA_PAYOUT_COOLDOWN_HOURS * HOUR)
                 remaining == Remaining(nextAvailable, t)
             IN  IF CooldownOver(remaining) THEN CooldownAvailable
                 ELSE [available |-> FALSE,
                       text |-> CooldownText(remaining),
                       color |-> CooldownColor(remaining)]

-----------------------------------------------------------------------------
(* Apps Script backend: parsing the messages *)

\* A message of the mailbox, as the regular expressions of the parse
\* functions see it:
\*   kind    which of the three searches returns it ("da", "pp", "chase")
\*   msgId   msg.getId()
\*   amount  the dollar amount found in the body, 0 when none is found
\*   extId   the payment / transaction id found in the body, "" when none
\*   date    msg.getDate()
\*   eta     the arrival date the body states or implies (transfers only)
Message(kind, msgId, amount, extId, date, eta) ==
    [kind |-> kind, msgId |-> msgId, amount |-> amount, extId |-> extId,
     date |-> date, eta |-> eta]

\* parseDAPayoutEmail: null (<<>>) when amount <= 0
parseDAPayoutEmail(msg) ==
    IF msg.amount <= 0 THEN <<>>
    ELSE << [source |-> "dataannotation",
             daPaymentId |-> IF msg.extId # "" THEN msg.extId ELSE "da_" \o msg.msgId,
             amount |-> msg.amount,
             receivedAt |-> msg.date] >>

\* parsePayPalTransferEmail: null (<<>>) when amount <= 0
parsePayPalTransferEmail(msg) ==
    IF msg.amount <= 0 THEN <<>>
    ELSE << [source |-> "paypal_transfer",
             amount |-> msg.amount,
             receivedAt |-> msg.date,
             paypalTransactionId |->
                 IF msg.extId # "" THEN msg.extId ELSE "pptx_" \o msg.msgId,
             estimatedArrival |-> msg.eta] >>

\* parseChaseDepositEmail: null (<<>>) when amount <= 0
parseChaseDepositEmail(msg) ==
    IF msg.amount <= 0 THEN <<>>
    ELSE << [source |-> "chase_deposit",
             chaseMessageId |-> "chase_" \o msg.msgId,
             amount |-> msg.amount,
             receivedAt |-> msg.date] >>

\* The threads.forEach / getMessages().forEach loops of scanEmails: the
\* parsed messages of one search, in the order the search returns them.
RECURSIVE ParsedDA(_)
ParsedDA(mail) ==
    IF mail = <<>> THEN <<>>
    ELSE (IF Head(mail).kind = "da" THEN parseDAPayoutEmail(Head(mail)) ELSE <<>>)
         \o ParsedDA(Tail(mail))

RECURSIVE ParsedTransfers(_)
ParsedTransfers(mail) ==
    IF mail = <<>> THEN <<>>
    ELSE (IF Head(mail).kind = "pp" THEN parsePayPalTransferEmail(Head(mail)) ELSE <<>>)
         \o ParsedTransfers(Tail(mail))

RECURSIVE ParsedDeposits(_)
ParsedDeposits(mail) ==
    IF mail = <<>> THEN <<>>
    ELSE (IF Head(mail).kind = "chase" THEN parseChaseDepositEmail(Head(mail)) ELSE <<>>)
         \o ParsedDeposits(Tail(mail))

-----------------------------------------------------------------------------
(* addBusinessDays *)

\* A date is a count of calendar days from a Sunday; the time of day, which
\* setDate keeps, is left out.

\* result.getDay(): 0 is Sunday, 6 is Saturday
GetDay(date) == date % 7

\* Variant: only Sunday is skipped
CountsOnlySundayOut(day) == day # 0

\* day !== 0 && day !== 6
Counts(day) == day # 0 /\ day # 6

\* No activation
NoCall == [pc |-> "none", date |-> 0, days |-> 0, result |-> 0, added |-> 0]

\* const result = new Date(date); let added = 0;
Call(date, days) ==
    [pc |-> "while", date |-> date, days |-> days, result |-> date, added |-> 0]

\* One pass of the while body
AddDay ==
    /\ addDays.pc = "while"
    /\ addDays.added < addDays.days
    /\ LET result == addDays.result + 1
           day == GetDay(result)
       IN  addDays' = [addDays EXCEPT
                         !.result = result,
                         !.added = IF Counts(day) THEN addDays.added + 1
                                   ELSE addDays.added]
    /\ UNCHANGED <<now, workSessions, emailSheet, mailbox, totals, cooldown, others>>

\* The loop condition fails: return result
ReturnResult ==
    /\ addDays.pc = "while"
    /\ ~(addDays.added < addDays.days)
    /\ addDays' = [addDays EXCEPT !.pc = "returned"]
    /\ UNCHANGED <<now, workSessions, emailSheet, mailbox, totals, cooldown, others>>

-----------------------------------------------------------------------------
(* Apps Script backend: the EmailPayouts sheet *)

\* A data row: Source, DAPaymentId, Amount, ReceivedAt, PaypalTransactionId,
\* EstimatedArrival.  (The ID column is a fresh random string that no code
\* modelled here reads.)
Row(source, daPaymentId, amount, receivedAt, paypalTransactionId, estimatedArrival) ==
    [source |-> source, daPaymentId |-> daPaymentId, amount |-> amount,
     receivedAt |-> receivedAt, paypalTransactionId |-> paypalTransactionId,
     estimatedArrival |-> estimatedArrival]

\* Variant: the rows already in the sheet are not looked at
NoExistingEmailPayouts(rows) == {}

\* getExistingEmailPayouts: the keys of the Map it builds
getExistingEmailPayouts(rows) ==
    { rows[i].daPaymentId \o "_da" :
        i \in { j \in 1..Len(rows) :
                  rows[j].source = "dataannotation" /\ rows[j].daPaymentId # "" } }
    \cup
    { rows[i].paypalTransactionId \o "_pptx" :
        i \in { j \in 1..Len(rows) :
                  rows[j].source = "paypal_transfer" /\ rows[j].paypalTransactionId # "" } }
    \cup
    { rows[i].daPaymentId \o "_chase" :
        i \in { j \in 1..Len(rows) :
                  rows[j].source = "chase_deposit" /\ rows[j].daPaymentId # "" } }

\* daPayouts.forEach: append the payouts whose key is not yet known.
\* st = [rows, existing]
RECURSIVE SaveDAPayouts(_, _)
SaveDAPayouts(st, daPayouts) ==
    IF daPayouts = <<>> THEN st
    ELSE LET dp == Head(daPayouts)
             key == dp.daPaymentId \o "_da"
         IN  IF key \notin st.existing
             THEN SaveDAPayouts(
                    [rows |-> Append(st.rows,
                                Row("dataannotation", dp.daPaymentId, Num(dp.amount),
                                    Iso(dp.receivedAt), "", NoTime)),
                     existing |-> st.existing \cup {key}],
                    Tail(daPayouts))
             ELSE SaveDAPayouts(st, Tail(daPayouts))

\* ppTransfers.forEach
RECURSIVE SaveTransfers(_, _)
SaveTransfers(st, ppTransfers) ==
    IF ppTransfers = <<>> THEN st
    ELSE LET pt == Head(ppTransfers)
             key == pt.paypalTransactionId \o "_pptx"
         IN  IF key \notin st.existing
             THEN SaveTransfers(
                    [rows |-> Append(st.rows,
                                Row("paypal_transfer", "", Num(pt.amount),
                                    Iso(pt.receivedAt), pt.paypalTransactionId,
                                    Iso(pt.estimatedArrival))),
                     existing |-> st.existing \cup {key}],
                    Tail(ppTransfers))
             ELSE SaveTransfers(st, Tail(ppTransfers))

\* Variant: deposits are not stored
SaveDepositsNever(st, chaseDeposits) == st

\* chaseDeposits.forEach
RECURSIVE SaveDeposits(_, _)
SaveDeposits(st, chaseDeposits) ==
    IF chaseDeposits = <<>> THEN st
    ELSE LET cd == Head(chaseDeposits)
             key == cd.chaseMessageId \o "_chase"
         IN  IF key \notin st.existing
             THEN SaveDeposits(
                    [rows |-> Append(st.rows,
                                Row("chase_deposit", cd.chaseMessageId, Num(cd.amount),
                                    Iso(cd.receivedAt), "", NoTime)),
                     existing |-> st.existing \cup {key}],
                    Tail(chaseDeposits))
             ELSE SaveDeposits(st, Tail(chaseDeposits))

\* Variant: the sheet is written anew from the messages found
SavedRowsReplacing(rows, mail) ==
    SaveDeposits(
        SaveTransfers(
            SaveDAPayouts([rows |-> <<>>, existing |-> {}], ParsedDA(mail)),
            ParsedTransfers(mail)),
        ParsedDeposits(mail)).rows

\* The rows of the sheet when scanEmails reaches its call of
\* matchChaseDepositsToTransfers
SavedRows(rows, mail) ==
    SaveDeposits(
        SaveTransfers(
            SaveDAPayouts([rows |-> rows, existing |-> getExistingEmailPayouts(rows)],
                          ParsedDA(mail)),
            ParsedTransfers(mail)),
        ParsedDeposits(mail)).rows

-----------------------------------------------------------------------------
(* matchChaseDepositsToTransfers *)

\* Variant: the last deposit of that amount (lastIndexOf)
LastIndexOfAmount(chaseDeposits, transferAmount) ==
    LET hits == { k \in 1..Len(chaseDeposits) : chaseDeposits[k].amount = transferAmount }
    IN  IF hits = {} THEN 0 ELSE CHOOSE k \in hits : \A h \in hits : k >= h

\* depositAmounts.indexOf(transferAmount): the first index whose deposit has
\* that amount, 0 when there is none (the code's -1)
IndexOfAmount(chaseDeposits, transferAmount) ==
    LET hits == { k \in 1..Len(chaseDeposits) : chaseDeposits[k].amount = transferAmount }
    IN  IF hits = {} THEN 0 ELSE CHOOSE k \in hits : \A h \in hits : k <= h

\* Variant: the matched deposit stays in the batch
SpliceNothing(seq, k) == seq

\* splice(matchIdx, 1)
Splice(seq, k) == SubSeq(seq, 1, k - 1) \o SubSeq(seq, k + 1, Len(seq))

\* Variant: only a missing estimatedArrival is skipped
MatcherSkipsOnlyAbsent(row, t) ==
    NewDateOrNull(row.estimatedArrival).kind = "null"

\* Only match transfers still "in progress":
\* if (!estimatedArrival || now >= estimatedArrival) continue;
MatcherSkips(row, t) ==
    LET estimatedArrival == NewDateOrNull(row.estimatedArrival)
    IN  estimatedArrival.kind = "null" \/ ClockAtOrAfter(t, estimatedArrival)

\* The for loop over the data rows, from row i on
RECURSIVE MatchLoop(_, _, _, _)
MatchLoop(data, chaseDeposits, i, t) ==
    IF i > Len(data) \/ chaseDeposits = <<>> THEN data
    ELSE IF data[i].source # "paypal_transfer"
         THEN MatchLoop(data, chaseDeposits, i + 1, t)
    ELSE IF MatcherSkips(data[i], t)
         THEN MatchLoop(data, chaseDeposits, i + 1, t)
    ELSE LET transferAmount == OrZero(parseFloat(data[i].amount))
             matchIdx == IndexOfAmount(chaseDeposits, transferAmount)
         IN  IF matchIdx # 0
             THEN MatchLoop(
                    [data EXCEPT ![i].estimatedArrival =
                                     Iso(chaseDeposits[matchIdx].receivedAt)],
                    Splice(chaseDeposits, matchIdx), i + 1, t)
             ELSE MatchLoop(data, chaseDeposits, i + 1, t)

\* Variant: the rows are walked from the last one to the first
MatchLatestFirst(data, chaseDeposits, t) ==
    IF Len(chaseDeposits) = 0 THEN data
    ELSE Reverse(MatchLoop(Reverse(data), chaseDeposits, 1, t))

matchChaseDepositsToTransfers(data, chaseDeposits, t) ==
    IF Len(chaseDeposits) = 0 THEN data
    ELSE MatchLoop(data, chaseDeposits, 1, t)

-----------------------------------------------------------------------------
(* Inputs *)

\* Work sessions found in the WorkSessions tab.  submittedAt is given
\* relative to Epoch so that the payout thresholds fall inside the window
\* the clock covers: the first session is still waiting at Epoch and past
\* waiting one second later, the second one second after that.
SessionInputs ==
    { [earnings |-> Num(100), type |-> "task",
       submittedAt |-> Iso(Epoch - TASK_PAYOUT_HOURS * HOUR + 1)],
      [earnings |-> NumStr(50), type |-> "project",
       submittedAt |-> Iso(Epoch - PROJECT_PAYOUT_HOURS * HOUR + 2)],
      [earnings |-> Num(50), type |-> "task", submittedAt |-> NoTime],
      [earnings |-> Num(100), type |-> "project", submittedAt |-> BadTime],
      [earnings |-> Num(-50), type |-> "task", submittedAt |-> Iso(Epoch)],
      [earnings |-> Junk, type |-> "project", submittedAt |-> Iso(Epoch)] }

\* Rows found in the EmailPayouts tab
RowInputs ==
    { Row("dataannotation", "d1", Num(100), Iso(Epoch), "", NoTime),
      Row("dataannotation", "d2", NumStr(50), Iso(Epoch), "", NoTime),
      Row("dataannotation", "d3", Junk, Iso(Epoch), "", NoTime),
      Row("paypal_transfer", "", Num(50), Iso(Epoch), "t1", Iso(Epoch + 1)),
      Row("paypal_transfer", "", Num(100), Iso(Epoch), "t2", NoTime),
      Row("paypal_transfer", "", NumStr(50), Iso(Epoch), "t3", BadTime),
      Row("paypal_transfer", "", Num(-50), Iso(Epoch), "t4", Iso(Epoch - HOUR)),
      Row("chase_deposit", "chase_c1", Num(100), Iso(Epoch), "", NoTime) }

\* Sessions logged through the session form: positive earnings, a
\* submission time
LoggedSessions ==
    { [earnings |-> Num(100), type |-> "task",
       submittedAt |-> Iso(Epoch - (TASK_PAYOUT_HOURS + 1) * HOUR)],
      [earnings |-> Num(100), type |-> "task",
       submittedAt |-> Iso(Epoch - TASK_PAYOUT_HOURS * HOUR + 1)] }

\* Transfer rows stored before the scans modelled here, with an unreadable,
\* a missing and a future arrival date
EnteredRows ==
    { Row("paypal_transfer", "", Num(100), Iso(Epoch), "t5", BadTime),
      Row("paypal_transfer", "", Num(100), Iso(Epoch), "t6", NoTime),
      Row("paypal_transfer", "", Num(100), Iso(Epoch), "t7", Iso(Epoch + 2 * DAY)) }

\* Dollar amounts the messages state
PayoutAmounts == {100}
TransferAmounts == {100}
DepositAmounts == {50, 100}

\* Arrival dates a transfer message states, as seconds after its date
EtaOffsets == {1, 2 * DAY}

MsgIds == <<"m1", "m2", "m3", "m4", "m5">>

-----------------------------------------------------------------------------
(* The state machine *)

Render(ws, ep, t) == calculateTotals(ws, ep, t)

\* renderPipeline's second call: const cooldown = this.getPayoutCooldown(..)
RenderCooldown(ep, t) == getPayoutCooldown(ep, t)

\* The two ways scanEmails is started: by the hourly trigger that
\* setupEmailTrigger installs, and by a doGet request with action=scanEmails
Executions == {"trigger", "request"}

\* No execution of scanEmails is under way
NoScan == [pc |-> "idle", found |-> <<>>, existing |-> {}]

\* _submitting: false, and no handler has been invoked
InitForms ==
    /\ submitting = FALSE
    /\ handlers = <<>>
    /\ saves = [save |-> 0, update |-> 0, dropped |-> 0, done |-> 0]

\* Nothing is stored, locally or in the spreadsheet
InitApi ==
    /\ local = <<>>
    /\ remote = <<>>
    /\ issued = 0
    /\ kept = {}
    /\ listed = <<>>

\* No call of the client is between a read and a write
NoOne == [pc |-> "none", writes |-> <<>>]

\* The Payments tab is empty and the client is idle
InitPipeline ==
    /\ payments = <<>>
    /\ advancing = NoOne
    /\ loading = NoOne

InitOthers ==
    /\ scans = [e \in Executions |-> NoScan]
    /\ InitForms
    /\ InitApi
    /\ InitPipeline

\* The ingestion starts with at most one logged session and at most one
\* earlier row in the store.
Init ==
    /\ now = Epoch
    /\ workSessions \in {<<>>} \cup { <<s>> : s \in LoggedSessions }
    /\ emailSheet \in {<<>>} \cup { <<r>> : r \in EnteredRows }
    /\ mailbox = <<>>
    /\ totals = Render(workSessions, emailSheet, now)
    /\ cooldown = RenderCooldown(emailSheet, now)
    /\ addDays = NoCall
    /\ InitOthers

\* The calculator starts with an empty store.
InitCalc ==
    /\ now = Epoch
    /\ workSessions = <<>>
    /\ emailSheet = <<>>
    /\ mailbox = <<>>
    /\ totals = Render(<<>>, <<>>, Epoch)
    /\ cooldown = RenderCooldown(<<>>, Epoch)
    /\ addDays = NoCall
    /\ InitOthers

\* A second passes and the dashboard is refreshed.
Tick ==
    /\ now < Epoch + MaxElapsed
    /\ now' = now + 1
    /\ totals' = Render(workSessions, emailSheet, now + 1)
    /\ cooldown' = RenderCooldown(emailSheet, now + 1)
    /\ UNCHANGED <<workSessions, emailSheet, mailbox, addDays, others>>

\* addRecord('WorkSessions', s); cap bounds the number of sessions
AddWorkSession(s, cap) ==
    /\ Len(workSessions) < cap
    /\ workSessions' = Append(workSessions, s)
    /\ totals' = Render(workSessions', emailSheet, now)
    /\ UNCHANGED <<now, emailSheet, mailbox, cooldown, addDays, others>>

\* addRecord('EmailPayouts', r); cap bounds the number of rows
AddEmailPayout(r, cap) ==
    /\ Len(emailSheet) < cap
    /\ emailSheet' = Append(emailSheet, r)
    /\ totals' = Render(workSessions, emailSheet', now)
    /\ cooldown' = RenderCooldown(emailSheet', now)
    /\ UNCHANGED <<now, workSessions, mailbox, addDays, others>>

\* A message arrives in the mailbox (kept in order of arrival).
ReceiveEmail(kind, amount, eta) ==
    /\ Len(mailbox) < MaxMail
    /\ mailbox' = Append(mailbox,
                     Message(kind, MsgIds[Len(mailbox) + 1], amount, "", now, eta))
    /\ UNCHANGED <<now, workSessions, emailSheet, totals, cooldown, addDays, others>>

\* The order in which GmailApp.search returns the messages is not fixed by
\* the code: oldest first or newest first.
SearchOrders(mail) == {mail, Reverse(mail)}

\* What scanEmails leaves in the sheet when the searches return `found`
ScanResult(rows, found, t) ==
    matchChaseDepositsToTransfers(SavedRows(rows, found), ParsedDeposits(found), t)

\* scanEmails(), followed by the dashboard's reload
ScanEmails ==
    /\ \E found \in SearchOrders(mailbox) :
          emailSheet' = ScanResult(emailSheet, found, now)
    /\ totals' = Render(workSessions, emailSheet', now)
    /\ cooldown' = RenderCooldown(emailSheet', now)
    /\ UNCHANGED <<now, workSessions, mailbox, addDays, others>>

ReceiveDA == \E a \in PayoutAmounts : ReceiveEmail("da", a, 0)
ReceiveTransfer ==
    \E a \in TransferAmounts, d \in EtaOffsets : ReceiveEmail("pp", a, now + d)
ReceiveDeposit == \E a \in DepositAmounts : ReceiveEmail("chase", a, 0)

Next ==
    \/ Tick
    \/ ReceiveDA
    \/ ReceiveTransfer
    \/ ReceiveDeposit
    \/ ScanEmails

Spec == Init /\ [][Next]_vars

\* The calculator over arbitrary stored records
StoreSession == \E s \in SessionInputs : AddWorkSession(s, MaxSessions)
StoreRow == \E r \in RowInputs : AddEmailPayout(r, MaxRows)

NextCalc ==
    \/ Tick
    \/ StoreSession
    \/ StoreRow

SpecCalc == InitCalc /\ [][NextCalc]_vars

\* The matcher over a store that already holds transfers.  Amounts here are
\* in thousandths of a dollar, the resolution at which equal amounts and
\* amounts less than a cent apart differ.
MaxStored == 2

\* Transfer rows in the store: arrival two days ahead, one second ahead,
\* an amount half a cent higher, an unreadable and a missing arrival, and
\* another amount
StoredTransfers ==
    { Row("paypal_transfer", "", Num(100000), Iso(Epoch), "u1", Iso(Epoch + 2 * DAY)),
      Row("paypal_transfer", "", Num(100000), Iso(Epoch), "u2", Iso(Epoch + 1)),
      Row("paypal_transfer", "", Num(100005), Iso(Epoch), "u3", Iso(Epoch + 2 * DAY)),
      Row("paypal_transfer", "", Num(100000), Iso(Epoch), "u4", BadTime),
      Row("paypal_transfer", "", Num(100000), Iso(Epoch), "u5", NoTime),
      Row("paypal_transfer", "", Num(50000), Iso(Epoch), "u6", Iso(Epoch + 2 * DAY)) }

\* Amounts the deposit messages state
MatchAmounts == {50000, 100000}

StoredSheets ==
    { sheet \in UNION { [1..n -> StoredTransfers] : n \in 0..MaxStored } :
        \A i, j \in 1..Len(sheet) : sheet[i] = sheet[j] => i = j }

InitMatch ==
    /\ now = Epoch
    /\ workSessions = <<>>
    /\ emailSheet \in StoredSheets
    /\ mailbox = <<>>
    /\ totals = Render(workSessions, emailSheet, now)
    /\ cooldown = RenderCooldown(emailSheet, now)
    /\ addDays = NoCall
    /\ InitOthers

ObserveDeposit == \E a \in MatchAmounts : ReceiveEmail("chase", a, 0)

NextMatch ==
    \/ Tick
    \/ ObserveDeposit
    \/ ScanEmails

SpecMatch == InitMatch /\ [][NextMatch]_vars

\* The cooldown over stored payouts of several ages
MaxPayouts == 3

\* Payout rows received 1h, 24h, 48h and 72h before the first instant, a
\* second more or less at the thresholds, without and with an unreadable
\* receivedAt, and rows of the other sources received at the first instant
CooldownInputs ==
    { Row("dataannotation", "p1", Num(100), Iso(Epoch - HOUR), "", NoTime),
      Row("dataannotation", "p2", Num(100), Iso(Epoch - 24 * HOUR + 1), "", NoTime),
      Row("dataannotation", "p3", Num(100), Iso(Epoch - 48 * HOUR + 1), "", NoTime),
      Row("dataannotation", "p4", Num(100), Iso(Epoch - 72 * HOUR + 1), "", NoTime),
      Row("dataannotation", "p5", Num(100), Iso(Epoch - 72 * HOUR), "", NoTime),
      Row("dataannotation", "p6", Num(100), Iso(Epoch - 72 * HOUR - 1), "", NoTime),
      Row("dataannotation", "p7", Num(100), NoTime, "", NoTime),
      Row("dataannotation", "p8", Num(100), BadTime, "", NoTime),
      Row("paypal_transfer", "", Num(100), Iso(Epoch), "t8", Iso(Epoch + 2 * DAY)),
      Row("chase_deposit", "chase_c2", Num(100), Iso(Epoch), "", NoTime) }

StorePayout == \E r \in CooldownInputs : AddEmailPayout(r, MaxPayouts)

NextCooldown ==
    \/ Tick
    \/ StorePayout

SpecCooldown == InitCalc /\ [][NextCooldown]_vars

\* addBusinessDays called with a start date of two weeks and a number of days
MaxStart == 13
MaxDays == 6

InitDays ==
    /\ now = Epoch
    /\ workSessions = <<>>
    /\ emailSheet = <<>>
    /\ mailbox = <<>>
    /\ totals = Render(<<>>, <<>>, Epoch)
    /\ cooldown = RenderCooldown(<<>>, Epoch)
    /\ \E date \in 0..MaxStart, days \in 1..MaxDays : addDays = Call(date, days)
    /\ InitOthers

NextDays ==
    \/ AddDay
    \/ ReturnResult

\* The loop is the only thing running in its execution: it is not stopped
\* while a step is possible.
SpecDays == InitDays /\ [][NextDays]_vars /\ WF_vars(NextDays)

-----------------------------------------------------------------------------
(* The dashboard over collections that are loaded once and listed in any order *)

\* emailPayouts after getPayoutCooldown has returned: .filter() builds a new
\* array and .sort() reorders that array; the argument is never written
EventsAfterCooldown(emailPayouts) == emailPayouts

\* workSessions and emailPayouts after calculateTotals has returned: both
\* are only read, by forEach
CollectionsAfterTotals(ws, ep) == [workSessions |-> ws, emailPayouts |-> ep]

MaxShown == 2

\* Sessions on either side of their payout time, and one without earnings
ShownSessions ==
    { [earnings |-> Num(100), type |-> "task",
       submittedAt |-> Iso(Epoch - TASK_PAYOUT_HOURS * HOUR + 1)],
      [earnings |-> NumStr(50), type |-> "project",
       submittedAt |-> Iso(Epoch - PROJECT_PAYOUT_HOURS * HOUR)],
      [earnings |-> Junk, type |-> "project", submittedAt |-> Iso(Epoch)] }

\* Payouts of three ages and with an unreadable date, a transfer on its way
\* and a deposit
ShownEvents ==
    { Row("dataannotation", "p1", Num(100), Iso(Epoch - HOUR), "", NoTime),
      Row("dataannotation", "p2", Num(50), Iso(Epoch - 24 * HOUR), "", NoTime),
      Row("dataannotation", "p5", Num(100), Iso(Epoch - 72 * HOUR), "", NoTime),
      Row("dataannotation", "p8", Num(100), BadTime, "", NoTime),
      Row("paypal_transfer", "", Num(50), Iso(Epoch), "t8", Iso(Epoch + 1)),
      Row("chase_deposit", "chase_c2", Num(100), Iso(Epoch), "", NoTime) }

InitShown ==
    /\ now = Epoch
    /\ workSessions \in UNION { [1..n -> ShownSessions] : n \in 0..MaxShown }
    /\ emailSheet \in UNION { [1..n -> ShownEvents] : n \in 0..MaxShown }
    /\ mailbox = <<>>
    /\ totals = Render(workSessions, emailSheet, now)
    /\ cooldown = RenderCooldown(emailSheet, now)
    /\ addDays = NoCall
    /\ InitOthers

\* renderPipeline(workSessions, emailPayouts): the two calls, and what they
\* leave in the collections they were given
RenderPipeline ==
    /\ totals' = calculateTotals(workSessions, emailSheet, now)
    /\ LET after == CollectionsAfterTotals(workSessions, emailSheet)
       IN  /\ cooldown' = getPayoutCooldown(after.emailPayouts, now)
           /\ workSessions' = after.workSessions
           /\ emailSheet' = EventsAfterCooldown(after.emailPayouts)
    /\ UNCHANGED <<now, mailbox, addDays, others>>

\* The orders in which a collection of n records can be listed
Orders(n) == { p \in [1..n -> 1..n] : \A i, j \in 1..n : p[i] = p[j] => i = j }

Listed(records, p) == [i \in 1..Len(records) |-> records[p[i]]]

\* The same records are loaded in another order and the dashboard is drawn.
Reload ==
    \E p \in Orders(Len(workSessions)), q \in Orders(Len(emailSheet)) :
        /\ workSessions' = Listed(workSessions, p)
        /\ emailSheet' = Listed(emailSheet, q)
        /\ totals' = Render(workSessions', emailSheet', now)
        /\ cooldown' = RenderCooldown(emailSheet', now)
        /\ UNCHANGED <<now, mailbox, addDays, others>>

NextShown ==
    \/ Tick
    \/ RenderPipeline
    \/ Reload

SpecShown == InitShown /\ [][NextShown]_vars

-----------------------------------------------------------------------------
(* The dashboard over a fixed set of events while time passes *)

MaxHeld == 2

\* Transfers that arrived before the first instant, that arrive at it and
\* that arrive at the last instant, transfers whose estimatedArrival is
\* missing or unreadable, a transfer without an amount, and a payout
HeldEvents ==
    { Row("paypal_transfer", "", Num(100), Iso(Epoch - DAY), "h1", Iso(Epoch - 1)),
      Row("paypal_transfer", "", Num(100), Iso(Epoch - DAY), "h2", Iso(Epoch)),
      Row("paypal_transfer", "", Num(50), Iso(Epoch), "h3", Iso(Epoch + MaxElapsed)),
      Row("paypal_transfer", "", NumStr(100), Iso(Epoch), "h4", Iso(Epoch + MaxElapsed)),
      Row("paypal_transfer", "", Num(100), Iso(Epoch), "h5", NoTime),
      Row("paypal_transfer", "", Num(50), Iso(Epoch), "h6", BadTime),
      Row("paypal_transfer", "", Num(0), Iso(Epoch), "h7", Iso(Epoch + MaxElapsed)),
      Row("dataannotation", "h8", Num(100), Iso(Epoch - DAY), "", NoTime) }

InitHeld ==
    /\ now = Epoch
    /\ workSessions = <<>>
    /\ emailSheet \in UNION { [1..n -> HeldEvents] : n \in 0..MaxHeld }
    /\ mailbox = <<>>
    /\ totals = Render(workSessions, emailSheet, now)
    /\ cooldown = RenderCooldown(emailSheet, now)
    /\ addDays = NoCall
    /\ InitOthers

NextHeld == Tick

\* Time does not stop: the clock reaches every instant of the interval.
SpecHeld == InitHeld /\ [][NextHeld]_vars /\ WF_vars(Tick)

-----------------------------------------------------------------------------
(* The ingestion of messages that state their own identifiers *)

\* The payment id or transaction id a message body states; "" when it
\* states none and the parser falls back on the message id
StatedIds == {"", "K1"}

\* A payout or transfer message arrives that states an identifier or none.
ReceiveKeyed ==
    \E kind \in {"da", "pp"}, extId \in StatedIds :
        /\ Len(mailbox) < MaxMail
        /\ mailbox' = Append(mailbox,
                         Message(kind, MsgIds[Len(mailbox) + 1], 100, extId,
                                 now, now + 2 * DAY))
        /\ UNCHANGED <<now, workSessions, emailSheet, totals, cooldown, addDays,
                       others>>

NextKeys ==
    \/ Tick
    \/ ReceiveKeyed
    \/ ReceiveDeposit
    \/ ScanEmails

SpecKeys == InitCalc /\ [][NextKeys]_vars

-----------------------------------------------------------------------------
(* Two executions of scanEmails that overlap in time.  The script takes no *)
(* lock: an execution searches the mailbox and reads the keys of the       *)
(* sheet, then appends the rows whose key it did not read, then runs the   *)
(* matcher, and the other execution can run between any two of these.      *)

\* What the steps of an execution leave alone
exceptScans == <<now, workSessions, mailbox, addDays, formVars, apiVars, pipelineVars>>

\* The three searches, the parsing, and getExistingEmailPayouts(emailSheet)
BeginScan(e) ==
    /\ scans[e].pc = "idle"
    /\ \E found \in SearchOrders(mailbox) :
          scans' = [scans EXCEPT ![e] =
                       [pc |-> "read", found |-> found,
                        existing |-> getExistingEmailPayouts(emailSheet)]]
    /\ UNCHANGED <<exceptScans, emailSheet, totals, cooldown>>

\* The three forEach loops: appendRow for every parsed message whose key is
\* not in the map this execution built
AppendRows(e) ==
    /\ scans[e].pc = "read"
    /\ emailSheet' =
          SaveDeposits(
              SaveTransfers(
                  SaveDAPayouts([rows |-> emailSheet, existing |-> scans[e].existing],
                                ParsedDA(scans[e].found)),
                  ParsedTransfers(scans[e].found)),
              ParsedDeposits(scans[e].found)).rows
    /\ scans' = [scans EXCEPT ![e].pc = "appended"]
    /\ UNCHANGED <<exceptScans, totals, cooldown>>

\* matchChaseDepositsToTransfers(emailSheet, chaseDeposits), the return, and
\* the dashboard's reload
FinishScan(e) ==
    /\ scans[e].pc = "appended"
    /\ emailSheet' = matchChaseDepositsToTransfers(
                         emailSheet, ParsedDeposits(scans[e].found), now)
    /\ scans' = [scans EXCEPT ![e] = NoScan]
    /\ totals' = Render(workSessions, emailSheet', now)
    /\ cooldown' = RenderCooldown(emailSheet', now)
    /\ UNCHANGED exceptScans

NextOverlap ==
    \/ ReceiveKeyed
    \/ ReceiveDeposit
    \/ \E e \in Executions : BeginScan(e)
    \/ \E e \in Executions : AppendRows(e)
    \/ \E e \in Executions : FinishScan(e)

SpecOverlap == InitCalc /\ [][NextOverlap]_vars

-----------------------------------------------------------------------------
(* The submit handlers of the four forms.  A handler runs without          *)
(* interruption up to its first await: the guard, the validation,          *)
(* setSubmitting(form, true) and the call of SheetsAPI.save or update      *)
(* happen in one step.  It then awaits the save and the reload, and ends   *)
(* with setSubmitting(form, false).                                        *)

MaxSubmits == 3

Forms == {"session", "payment", "goal", "allocation"}

\* The allocation form has no edit id; the other three save a new record
\* or update the one being edited
CanEdit(form) == form # "allocation"

\* What the steps of a handler leave alone
exceptForms ==
    <<now, workSessions, emailSheet, mailbox, totals, cooldown, addDays, scans,
      apiVars, pipelineVars>>

Invocations == saves.save + saves.update + saves.dropped

\* Variant: the handler does not look at the flag
GuardNeverReturns == FALSE

\* if (this._submitting) return;
GuardReturns == submitting

\* The submit event of a form: edit says whether an edit id is set, valid
\* whether the fields pass the handler's validation
Submit(form, edit, valid) ==
    /\ Invocations < MaxSubmits
    /\ UNCHANGED exceptForms
    /\ IF GuardReturns
       THEN /\ saves' = [saves EXCEPT !.dropped = @ + 1]
            /\ UNCHANGED <<submitting, handlers>>
       ELSE IF ~valid
       THEN UNCHANGED formVars
       ELSE /\ submitting' = TRUE
            /\ handlers' = Append(handlers, [form |-> form, edit |-> edit, pc |-> "save"])
            /\ saves' = IF edit THEN [saves EXCEPT !.update = @ + 1]
                                ELSE [saves EXCEPT !.save = @ + 1]

\* setSubmitting(form, false) at the end of handler i
Release(i) ==
    /\ submitting' = FALSE
    /\ handlers' = SubSeq(handlers, 1, i - 1) \o SubSeq(handlers, i + 1, Len(handlers))
    /\ saves' = [saves EXCEPT !.done = @ + 1]

\* The awaited save or update of handler i settles: the handler goes on to
\* the reload, or to its catch block and its end
SaveSettles(i, ok) ==
    /\ i \in 1..Len(handlers)
    /\ handlers[i].pc = "save"
    /\ UNCHANGED exceptForms
    /\ IF ok
       THEN /\ handlers' = [handlers EXCEPT ![i].pc = "reload"]
            /\ UNCHANGED <<submitting, saves>>
       ELSE Release(i)

\* The awaited loadData or renderGoals of handler i settles, with success or
\* in the catch block, and the handler ends
ReloadSettles(i) ==
    /\ i \in 1..Len(handlers)
    /\ handlers[i].pc = "reload"
    /\ UNCHANGED exceptForms
    /\ Release(i)

NextForms ==
    \/ \E form \in Forms, edit \in BOOLEAN, valid \in BOOLEAN :
          (edit => CanEdit(form)) /\ Submit(form, edit, valid)
    \/ \E i \in 1..MaxSubmits, ok \in BOOLEAN : SaveSettles(i, ok)
    \/ \E i \in 1..MaxSubmits : ReloadSettles(i)

SpecForms == InitCalc /\ [][NextForms]_vars

-----------------------------------------------------------------------------
(* SheetsAPI over one tab, with an Apps Script URL configured.  A record   *)
(* is represented by its id.  Every request to the script either succeeds  *)
(* or fails; the calls are made one after another.                         *)

MaxRecords == 3

\* What SheetsAPI leaves alone
exceptApi ==
    <<now, workSessions, emailSheet, mailbox, totals, cooldown, addDays, scans,
      formVars, pipelineVars>>

Without(records, id) == SelectSeq(records, LAMBDA r : r # id)

\* if (records.length > 0 || localRecords.length === 0)
ReplacesLocal(records, localRecords) == Len(records) > 0 \/ Len(localRecords) = 0

\* _getFromSheets: [records returned, records left in local storage]
GetFromSheets(fetched, records, localRecords) ==
    IF fetched /\ ReplacesLocal(records, localRecords)
    THEN [returned |-> records, stored |-> records]
    ELSE [returned |-> localRecords, stored |-> localRecords]

\* SheetsAPI.getAll(tab); fetched says whether the GET succeeded
GetAll(fetched) ==
    /\ LET r == GetFromSheets(fetched, remote, local)
       IN  /\ listed' = r.returned
           /\ local' = r.stored
    /\ UNCHANGED <<remote, issued, kept, exceptApi>>

\* SheetsAPI.save(tab, record) with a new record: _addToLocalStorage, then
\* the POST of action 'add', which appends the row when it succeeds; the
\* record is returned either way
Save(posted) ==
    /\ issued < MaxRecords
    /\ issued' = issued + 1
    /\ local' = Append(local, issued + 1)
    /\ remote' = IF posted THEN Append(remote, issued + 1) ELSE remote
    /\ kept' = kept \cup {issued + 1}
    /\ UNCHANGED <<listed, exceptApi>>

\* SheetsAPI.remove(tab, id): the POST of action 'delete', which deletes the
\* row when it succeeds, then the local filter
Remove(id, posted) ==
    /\ id \in kept
    /\ remote' = IF posted THEN Without(remote, id) ELSE remote
    /\ local' = Without(local, id)
    /\ kept' = kept \ {id}
    /\ UNCHANGED <<issued, listed, exceptApi>>

NextApi ==
    \/ \E fetched \in BOOLEAN : GetAll(fetched)
    \/ \E posted \in BOOLEAN : Save(posted)
    \/ \E id \in 1..MaxRecords, posted \in BOOLEAN : Remove(id, posted)

SpecApi == InitCalc /\ [][NextApi]_vars

-----------------------------------------------------------------------------
(* The stateful pipeline: payments that carry a status, advanced by the    *)
(* client (Pipeline.autoAdvance within App.loadData, App.advancePayment)   *)
(* and by the backend (matchAndAdvancePipeline within scanEmails).  The    *)
(* client reads the payments, awaits, and then posts its updates; a scan   *)
(* of the backend can run between the two.  Of a payment the model keeps   *)
(* the fields the three operations read: the amount, the status,           *)
(* PayoutExpectedAt, DAPaymentId and PaypalTransactionId.                  *)

STAGES == <<"submitted", "pending_payout", "paid_out", "transferring", "in_bank">>

\* STAGES.indexOf(status), counted from 0; -1 when it is no stage
IndexOf(status) ==
    IF \E k \in 1..Len(STAGES) : STAGES[k] = status
    THEN (CHOOSE k \in 1..Len(STAGES) : STAGES[k] = status) - 1
    ELSE -1

Payment(id, amount, status, payoutExpectedAt, daPaymentId, paypalTransactionId) ==
    [id |-> id, amount |-> amount, status |-> status,
     payoutExpectedAt |-> payoutExpectedAt, daPaymentId |-> daPaymentId,
     paypalTransactionId |-> paypalTransactionId]

\* p.status === 'submitted' && p.payoutExpectedAt
\*   && now >= new Date(p.payoutExpectedAt)
AutoAdvances(p, t) ==
    /\ p.status = "submitted"
    /\ p.payoutExpectedAt.tag # "empty"
    /\ ClockAtOrAfter(t, NewDateOrNull(p.payoutExpectedAt))

\* Pipeline.autoAdvance(payments): the list as the forEach leaves it
autoAdvance(ps, t) ==
    [i \in 1..Len(ps) |->
        IF AutoAdvances(ps[i], t) THEN [ps[i] EXCEPT !.status = "pending_payout"]
        ELSE ps[i]]

\* Pipeline.advancePayment(payment, newStatus) without extraData
advancePayment(payment, newStatus) ==
    IF newStatus = "paid_out"
    THEN [payment EXCEPT !.status = newStatus, !.daPaymentId = ""]
    ELSE IF newStatus = "in_bank"
    THEN [payment EXCEPT !.status = newStatus, !.paypalTransactionId = ""]
    ELSE [payment EXCEPT !.status = newStatus]

\* updateRecord('Payments', id, updates): the row of that id takes every
\* field of updates; fields says which ones updates defines
updateRecord(rows, id, updates, fields) ==
    [i \in 1..Len(rows) |->
        IF rows[i].id # id THEN rows[i]
        ELSE IF fields = "all" THEN updates
        ELSE [rows[i] EXCEPT !.status = updates.status]]

\* Math.abs(amount - dp.amount) < 0.01, on whole dollars
SameAmount(a, b) == a = b

\* parsePayPalEmail: null (<<>>) when amount <= 0; the message states no
\* DA payment id in a note
parsePayPalEmail(msg) ==
    IF msg.amount <= 0 THEN <<>>
    ELSE << [source |-> "paypal",
             daPaymentId |-> "",
             amount |-> msg.amount,
             receivedAt |-> msg.date,
             paypalTransactionId |->
                 IF msg.extId # "" THEN msg.extId ELSE "pp_" \o msg.msgId] >>

RECURSIVE ParsedReceipts(_)
ParsedReceipts(mail) ==
    IF mail = <<>> THEN <<>>
    ELSE (IF Head(mail).kind = "receipt" THEN parsePayPalEmail(Head(mail)) ELSE <<>>)
         \o ParsedReceipts(Tail(mail))

\* The first data row the for loop stops at, 0 when it ends without a match;
\* matching is the set of the row numbers that satisfy the loop's condition
FirstRow(matching) ==
    IF matching = {} THEN 0
    ELSE CHOOSE i \in matching : \A j \in matching : i <= j

\* daPayouts.forEach, first pass: a payout advances the first payment of
\* its amount that is submitted or pending_payout.
\* st = [rows, unmatched], unmatched being the payouts left for the second pass
RECURSIVE AdvanceToPaidOut(_, _)
AdvanceToPaidOut(st, daPayouts) ==
    IF daPayouts = <<>> THEN st
    ELSE LET dp == Head(daPayouts)
             Matches(r) == /\ r.status \in {"submitted", "pending_payout"}
                           /\ SameAmount(r.amount, dp.amount)
             i == FirstRow({k \in 1..Len(st.rows) : Matches(st.rows[k])})
         IN  IF i # 0
             THEN AdvanceToPaidOut(
                    [st EXCEPT !.rows[i].status = "paid_out",
                               !.rows[i].daPaymentId = dp.daPaymentId],
                    Tail(daPayouts))
             ELSE AdvanceToPaidOut(
                    [st EXCEPT !.unmatched = Append(@, dp)], Tail(daPayouts))

\* daPayouts.forEach, second pass: an unmatched payout whose DA payment id
\* no payment carries creates a payment at paid_out
RECURSIVE AutoCreate(_, _)
AutoCreate(rows, unmatched) ==
    IF unmatched = <<>> THEN rows
    ELSE LET dp == Head(unmatched)
         IN  IF \E i \in 1..Len(rows) : rows[i].daPaymentId = dp.daPaymentId
             THEN AutoCreate(rows, Tail(unmatched))
             ELSE AutoCreate(
                    Append(rows,
                       Payment("pmt_" \o ToString(Len(rows) + 1), dp.amount,
                               "paid_out", Iso(dp.receivedAt), dp.daPaymentId, "")),
                    Tail(unmatched))

\* ppReceipts.forEach: a receipt only adds its transaction id to a paid_out
\* payment that has none
RECURSIVE AddTransactionIds(_, _)
AddTransactionIds(rows, ppReceipts) ==
    IF ppReceipts = <<>> THEN rows
    ELSE LET pp == Head(ppReceipts)
             Matches(r) ==
                 /\ r.status = "paid_out"
                 /\ r.paypalTransactionId = ""
                 /\ \/ pp.daPaymentId # "" /\ r.daPaymentId = pp.daPaymentId
                    \/ pp.daPaymentId = "" /\ SameAmount(r.amount, pp.amount)
             i == FirstRow({k \in 1..Len(rows) : Matches(rows[k])})
         IN  IF i # 0
             THEN AddTransactionIds(
                    [rows EXCEPT ![i].paypalTransactionId = pp.paypalTransactionId],
                    Tail(ppReceipts))
             ELSE AddTransactionIds(rows, Tail(ppReceipts))

\* ppTransfers.forEach: a transfer advances the first paid_out payment of
\* its amount or of its transaction id to transferring
RECURSIVE AdvanceToTransferring(_, _)
AdvanceToTransferring(rows, ppTransfers) ==
    IF ppTransfers = <<>> THEN rows
    ELSE LET pt == Head(ppTransfers)
             Matches(r) ==
                 /\ r.status = "paid_out"
                 /\ \/ SameAmount(r.amount, pt.amount)
                    \/ /\ r.paypalTransactionId # ""
                       /\ r.paypalTransactionId = pt.paypalTransactionId
             i == FirstRow({k \in 1..Len(rows) : Matches(rows[k])})
         IN  IF i # 0
             THEN AdvanceToTransferring(
                    [rows EXCEPT ![i].status = "transferring",
                                 ![i].paypalTransactionId =
                                     IF @ = "" THEN pt.paypalTransactionId ELSE @],
                    Tail(ppTransfers))
             ELSE AdvanceToTransferring(rows, Tail(ppTransfers))

\* The rows of the Payments tab after matchAndAdvancePipeline
matchAndAdvancePipeline(rows, daPayouts, ppReceipts, ppTransfers) ==
    LET first == AdvanceToPaidOut([rows |-> rows, unmatched |-> <<>>], daPayouts)
    IN  AdvanceToTransferring(
            AddTransactionIds(AutoCreate(first.rows, first.unmatched), ppReceipts),
            ppTransfers)

\* getExistingEmailPayouts of the stateful backend: the keys of its Map
ExistingKeys(rows) ==
    { rows[i].daPaymentId \o "_da" :
        i \in { j \in 1..Len(rows) :
                  rows[j].source = "dataannotation" /\ rows[j].daPaymentId # "" } }
    \cup
    { rows[i].paypalTransactionId \o "_pp" :
        i \in { j \in 1..Len(rows) :
                  rows[j].source = "paypal" /\ rows[j].paypalTransactionId # "" } }
    \cup
    { rows[i].paypalTransactionId \o "_pptx" :
        i \in { j \in 1..Len(rows) :
                  rows[j].source = "paypal_transfer" /\ rows[j].paypalTransactionId # "" } }

\* The key under which a parsed message is looked up and stored
KeyOf(parsed) ==
    IF parsed.source = "dataannotation" THEN parsed.daPaymentId \o "_da"
    ELSE IF parsed.source = "paypal" THEN parsed.paypalTransactionId \o "_pp"
    ELSE parsed.paypalTransactionId \o "_pptx"

\* One of the three forEach loops that append to EmailPayouts.
\* st = [rows, existing]
RECURSIVE SaveEmails(_, _)
SaveEmails(st, parsed) ==
    IF parsed = <<>> THEN st
    ELSE LET e == Head(parsed)
         IN  IF KeyOf(e) \notin st.existing
             THEN SaveEmails(
                    [rows |-> Append(st.rows,
                                Row(e.source,
                                    IF e.source = "paypal_transfer" THEN ""
                                    ELSE e.daPaymentId,
                                    Num(e.amount), Iso(e.receivedAt),
                                    IF e.source = "dataannotation" THEN ""
                                    ELSE e.paypalTransactionId,
                                    NoTime)),
                     existing |-> st.existing \cup {KeyOf(e)}],
                    Tail(parsed))
             ELSE SaveEmails(st, Tail(parsed))

\* The EmailPayouts rows when the stateful scanEmails reaches its call of
\* matchAndAdvancePipeline
StatefulSavedRows(rows, mail) ==
    SaveEmails(
        SaveEmails(
            SaveEmails([rows |-> rows, existing |-> ExistingKeys(rows)],
                       ParsedDA(mail)),
            ParsedReceipts(mail)),
        ParsedTransfers(mail)).rows

\* The Payments rows the stateful scanEmails leaves
ScannedPayments(rows, mail) ==
    matchAndAdvancePipeline(rows, ParsedDA(mail), ParsedReceipts(mail),
                            ParsedTransfers(mail))

MaxPayments == 2

\* Payments entered earlier, in any stage; their payout time is one second
\* after the first instant or was not recorded
StoredPayments(id) ==
    { Payment(id, 100, status, payoutExpectedAt, "", "") :
        status \in { STAGES[k] : k \in 1..Len(STAGES) },
        payoutExpectedAt \in {Iso(Epoch + 1), NoTime} }

PaymentIds == <<"p1", "p2", "p3">>

InitStateful ==
    /\ now = Epoch
    /\ workSessions = <<>>
    /\ emailSheet = <<>>
    /\ mailbox = <<>>
    /\ totals = Render(<<>>, <<>>, Epoch)
    /\ cooldown = RenderCooldown(<<>>, Epoch)
    /\ addDays = NoCall
    /\ scans = [e \in Executions |-> NoScan]
    /\ InitForms
    /\ InitApi
    /\ \E n \in 0..MaxPayments :
          payments \in { ps \in [1..n -> UNION { StoredPayments(PaymentIds[k]) : k \in 1..n }] :
                           \A i \in 1..n : ps[i].id = PaymentIds[i] }
    /\ advancing = NoOne
    /\ loading = NoOne

\* What the stateful pipeline leaves alone
exceptPipeline ==
    <<workSessions, totals, cooldown, addDays, scans, formVars, apiVars>>

\* A second passes.
ClockPasses ==
    /\ now < Epoch + MaxElapsed
    /\ now' = now + 1
    /\ UNCHANGED <<emailSheet, mailbox, pipelineVars, exceptPipeline>>

\* A payout message, a receipt or a transfer message of $100 arrives.
ReceiveStateful ==
    \E kind \in {"da", "receipt", "pp"} :
        /\ Len(mailbox) < MaxMail
        /\ mailbox' = Append(mailbox,
                         Message(kind, MsgIds[Len(mailbox) + 1], 100, "", now, 0))
        /\ UNCHANGED <<now, emailSheet, pipelineVars, exceptPipeline>>

\* scanEmails() of the stateful backend, as one execution
ScanStateful ==
    \E found \in SearchOrders(mailbox) :
        /\ emailSheet' = StatefulSavedRows(emailSheet, found)
        /\ payments' = ScannedPayments(payments, found)
        /\ UNCHANGED <<now, mailbox, advancing, loading, exceptPipeline>>

\* App.advancePayment(id) up to its update: getPayments, find, the index
\* test, and Pipeline.advancePayment on the payment that was read
AdvanceRead(id) ==
    /\ advancing = NoOne
    /\ \E i \in 1..Len(payments) :
          /\ payments[i].id = id
          /\ IndexOf(payments[i].status) < Len(STAGES) - 1
          /\ advancing' =
                [pc |-> "update",
                 writes |-> << advancePayment(payments[i],
                                   STAGES[IndexOf(payments[i].status) + 2]) >>]
    /\ UNCHANGED <<now, emailSheet, mailbox, payments, loading, exceptPipeline>>

\* await SheetsAPI.updatePayment(id, payment)
AdvanceUpdate ==
    /\ advancing.pc = "update"
    /\ payments' = updateRecord(payments, advancing.writes[1].id,
                                advancing.writes[1], "all")
    /\ advancing' = NoOne
    /\ UNCHANGED <<now, emailSheet, mailbox, loading, exceptPipeline>>

\* App.loadData up to its updates: getPayments and Pipeline.autoAdvance,
\* which says whether it changed a payment
LoadRead ==
    /\ loading = NoOne
    /\ autoAdvance(payments, now) # payments
    /\ loading' = [pc |-> "update", writes |-> autoAdvance(payments, now)]
    /\ UNCHANGED <<now, emailSheet, mailbox, payments, advancing, exceptPipeline>>

\* The list with every payment's status written to the row of its id:
\* for (const p of payments) await SheetsAPI.updatePayment(p.id, { status })
RECURSIVE UpdateStatuses(_, _)
UpdateStatuses(rows, writes) ==
    IF writes = <<>> THEN rows
    ELSE UpdateStatuses(updateRecord(rows, Head(writes).id, Head(writes), "status"),
                        Tail(writes))

LoadUpdate ==
    /\ loading.pc = "update"
    /\ payments' = UpdateStatuses(payments, loading.writes)
    /\ loading' = NoOne
    /\ UNCHANGED <<now, emailSheet, mailbox, advancing, exceptPipeline>>

NextStateful ==
    \/ ClockPasses
    \/ ReceiveStateful
    \/ ScanStateful
    \/ \E i \in 1..Len(payments) : AdvanceRead(payments[i].id)
    \/ AdvanceUpdate
    \/ LoadRead
    \/ LoadUpdate

SpecStateful == InitStateful /\ [][NextStateful]_vars

-----------------------------------------------------------------------------
(* Vocabulary of the claims, stated on the stored fields *)

RECURSIVE SeqSum(_)
SeqSum(v) == IF v = <<>> THEN 0 ELSE Head(v) + SeqSum(Tail(v))

\* The amount a stored field denotes when it is a positive number, else 0
PositiveAmount(x) ==
    IF x.tag \in {"number", "string"} /\ x.val > 0 THEN x.val ELSE 0

\* A field that is non-positive or malformed
Worthless(x) == x.tag = "junk" \/ x.val <= 0

Latency(s) ==
    IF s.type = "task" THEN TASK_PAYOUT_HOURS
    ELSE IF s.type = "project" THEN PROJECT_PAYOUT_HOURS
    ELSE 0

\* A session is still waiting when it has a submittedAt and the clock is
\* before submittedAt + latency
IsStillWaiting(s, t) ==
    /\ s.submittedAt.tag # "empty"
    /\ s.submittedAt.tag = "iso"
    /\ t < s.submittedAt.t + Latency(s) * HOUR

\* A transfer is completed when it has an estimatedArrival at or before the
\* clock
IsArrived(r, t) ==
    /\ r.estimatedArrival.tag = "iso"
    /\ t >= r.estimatedArrival.t

StillWaitingSum(ws, t) ==
    SeqSum([i \in 1..Len(ws) |->
              IF IsStillWaiting(ws[i], t) THEN PositiveAmount(ws[i].earnings) ELSE 0])

PastWaitingSum(ws, t) ==
    SeqSum([i \in 1..Len(ws) |->
              IF IsStillWaiting(ws[i], t) THEN 0 ELSE PositiveAmount(ws[i].earnings)])

DASum(ep) ==
    SeqSum([i \in 1..Len(ep) |->
              IF ep[i].source = "dataannotation" THEN PositiveAmount(ep[i].amount) ELSE 0])

CompletedSum(ep, t) ==
    SeqSum([i \in 1..Len(ep) |->
              IF ep[i].source = "paypal_transfer" /\ IsArrived(ep[i], t)
              THEN PositiveAmount(ep[i].amount) ELSE 0])

InProgressSum(ep, t) ==
    SeqSum([i \in 1..Len(ep) |->
              IF ep[i].source = "paypal_transfer" /\ ~IsArrived(ep[i], t)
              THEN PositiveAmount(ep[i].amount) ELSE 0])

TransferSum(ep) ==
    SeqSum([i \in 1..Len(ep) |->
              IF ep[i].source = "paypal_transfer"
              THEN PositiveAmount(ep[i].amount) ELSE 0])

TotalOf(tt) ==
    tt.submitted + tt.pending_payout + tt.paid_out + tt.transferring + tt.in_bank

RemoveAt(seq, i) == SubSeq(seq, 1, i - 1) \o SubSeq(seq, i + 1, Len(seq))

-----------------------------------------------------------------------------
(* C1: whatever sessions and payout events are stored -- malformed,        *)
(* negative and missing amounts and timestamps included -- and whatever    *)
(* the clock reads, each of the five totals is >= 0.                       *)
C1_TotalsNonNegative ==
    /\ totals.submitted >= 0
    /\ totals.pending_payout >= 0
    /\ totals.paid_out >= 0
    /\ totals.transferring >= 0
    /\ totals.in_bank >= 0

\* Both clamps are active (payouts exceed the past-waiting sessions, the
\* transfers exceed the payouts) with a malformed and a negative record stored.
C1_Witness ==
    /\ DASum(emailSheet) > PastWaitingSum(workSessions, now)
    /\ TransferSum(emailSheet) > DASum(emailSheet)
    /\ DASum(emailSheet) > 0
    /\ \E i \in 1..Len(workSessions) : Worthless(workSessions[i].earnings)

-----------------------------------------------------------------------------
(* C5: pending_payout = max(0, P - D), P the earnings of the past-waiting  *)
(* sessions and D the amounts of all dataannotation events; when D exceeds *)
(* P the result is 0 and the excess reduces neither submitted nor any      *)
(* other stage.                                                            *)
C5_PendingPayout ==
    LET P == PastWaitingSum(workSessions, now)
        D == DASum(emailSheet)
    IN  /\ totals.pending_payout = Max(0, P - D)
        /\ D > P =>
             /\ totals.pending_payout = 0
             /\ totals.submitted = StillWaitingSum(workSessions, now)
             /\ totals.paid_out + totals.transferring + totals.in_bank
                  = Max(D, TransferSum(emailSheet))

\* Payouts exceed the past-waiting earnings while a session still waits.
C5_Witness ==
    /\ PastWaitingSum(workSessions, now) > 0
    /\ DASum(emailSheet) > PastWaitingSum(workSessions, now)
    /\ totals.submitted > 0
    /\ totals.pending_payout = 0

-----------------------------------------------------------------------------
(* C6: paid_out = max(0, D - TC - TP), D the dataannotation amounts, TC    *)
(* the completed and TP the in-progress transfers; a transfer that moves   *)
(* from in progress to completed leaves paid_out unchanged.                *)
C6_PaidOutLaw ==
    totals.paid_out =
        Max(0, DASum(emailSheet) - CompletedSum(emailSheet, now)
                 - InProgressSum(emailSheet, now))

C6_PaidOut ==
    [][ /\ C6_PaidOutLaw'
        /\ ( /\ emailSheet' = emailSheet
             /\ CompletedSum(emailSheet, now') > CompletedSum(emailSheet, now) )
           => totals'.paid_out = totals.paid_out ]_vars

\* A transfer has arrived by the passing of time while payouts exceed the
\* transfers.
C6_Witness ==
    /\ now > Epoch
    /\ CompletedSum(emailSheet, now) > CompletedSum(emailSheet, Epoch)
    /\ totals.paid_out > 0

-----------------------------------------------------------------------------
(* C7: every paypal_transfer with a positive amount is counted in exactly  *)
(* one of transferring and in_bank: in in_bank when its estimatedArrival   *)
(* is present and now >= estimatedArrival, else in transferring.           *)
C7_TransferSplit ==
    /\ totals.in_bank = CompletedSum(emailSheet, now)
    /\ totals.transferring = InProgressSum(emailSheet, now)
    /\ totals.transferring + totals.in_bank = TransferSum(emailSheet)

\* An arrived transfer beside one without an estimatedArrival
C7_Witness ==
    /\ totals.in_bank > 0
    /\ \E i \in 1..Len(emailSheet) :
         /\ emailSheet[i].source = "paypal_transfer"
         /\ emailSheet[i].estimatedArrival.tag = "empty"
         /\ PositiveAmount(emailSheet[i].amount) > 0

-----------------------------------------------------------------------------
(* C8: a session with positive earnings is still waiting exactly when it   *)
(* has a submittedAt and now < submittedAt + latency hours (72 for a task, *)
(* 168 for a project), else it is past waiting; submitted is the sum of    *)
(* the still-waiting earnings.                                             *)
C8_SessionSplit ==
    LET sums == SessionSums(workSessions, now, 1,
                    [sessionsStillWaiting |-> 0, sessionsPastWaiting |-> 0])
    IN  /\ sums.sessionsStillWaiting = StillWaitingSum(workSessions, now)
        /\ sums.sessionsPastWaiting = PastWaitingSum(workSessions, now)
        /\ totals.submitted = StillWaitingSum(workSessions, now)

\* A task session exactly at its threshold beside a project session one
\* second before its own
C8_Witness ==
    /\ \E i \in 1..Len(workSessions) :
         /\ workSessions[i].type = "task"
         /\ workSessions[i].submittedAt = Iso(now - TASK_PAYOUT_HOURS * HOUR)
         /\ PositiveAmount(workSessions[i].earnings) > 0
    /\ \E i \in 1..Len(workSessions) :
         /\ workSessions[i].type = "project"
         /\ workSessions[i].submittedAt = Iso(now + 1 - PROJECT_PAYOUT_HOURS * HOUR)
         /\ PositiveAmount(workSessions[i].earnings) > 0

-----------------------------------------------------------------------------
(* C9: a session whose earnings, or an event whose amount, is non-positive *)
(* or malformed contributes nothing: the totals are those computed with    *)
(* the record removed.                                                     *)
C9_WorthlessIgnored ==
    /\ \A i \in 1..Len(workSessions) :
         Worthless(workSessions[i].earnings) =>
           calculateTotals(RemoveAt(workSessions, i), emailSheet, now) = totals
    /\ \A i \in 1..Len(emailSheet) :
         Worthless(emailSheet[i].amount) =>
           calculateTotals(workSessions, RemoveAt(emailSheet, i), now) = totals

\* A negative session and a malformed payout stored beside records that count
C9_Witness ==
    /\ \E i \in 1..Len(workSessions) :
         workSessions[i].earnings.tag = "number" /\ workSessions[i].earnings.val < 0
    /\ \E i \in 1..Len(emailSheet) : emailSheet[i].amount.tag = "junk"
    /\ totals.paid_out > 0

-----------------------------------------------------------------------------
(* Vocabulary of the claims about the ingestion *)

\* The step is a run of scanEmails whose searches returned `found`
IsScanOf(found) ==
    /\ found \in SearchOrders(mailbox)
    /\ emailSheet' = ScanResult(emailSheet, found, now)
    /\ UNCHANGED <<now, mailbox, workSessions>>

IsTransferOf(r, a) ==
    r.source = "paypal_transfer" /\ PositiveAmount(r.amount) = a

\* estimatedArrival in the future
InFlight(r, t) == r.estimatedArrival.tag = "iso" /\ t < r.estimatedArrival.t

\* estimatedArrival present and not at or before the clock: a future date,
\* or one that cannot be read
Unsettled(r, t) == r.estimatedArrival.tag # "empty" /\ ~IsArrived(r, t)

MinOf(S) == CHOOSE x \in S : \A y \in S : x <= y

\* The stages the matcher must leave alone
SameUpstream(a, b) ==
    /\ a.submitted = b.submitted
    /\ a.pending_payout = b.pending_payout
    /\ a.paid_out = b.paid_out

-----------------------------------------------------------------------------
(* C3: with one task session of earnings 100 submitted 73h before now and  *)
(* no payout events, pending_payout = 100 and every other stage is 0;      *)
(* with a dataannotation event of 100 added, pending_payout = 0 and        *)
(* paid_out = 100; with a paypal_transfer of 100 arriving at now + 2d      *)
(* added as well, paid_out = 0 and transferring = 100.                     *)
C3_Session ==
    /\ Len(workSessions) = 1
    /\ workSessions[1].type = "task"
    /\ workSessions[1].earnings = Num(100)
    /\ workSessions[1].submittedAt = Iso(now - 73 * HOUR)

C3_IsPayout(r) ==
    r.source = "dataannotation" /\ r.amount = Num(100) /\ r.receivedAt = Iso(now)

C3_IsTransfer(r) ==
    /\ r.source = "paypal_transfer"
    /\ r.amount = Num(100)
    /\ r.estimatedArrival = Iso(now + 2 * DAY)

C3_Scenario ==
    /\ (C3_Session /\ emailSheet = <<>>) =>
         totals = [submitted |-> 0, pending_payout |-> 100, paid_out |-> 0,
                   transferring |-> 0, in_bank |-> 0]
    /\ (C3_Session /\ Len(emailSheet) = 1 /\ C3_IsPayout(emailSheet[1])) =>
         totals = [submitted |-> 0, pending_payout |-> 0, paid_out |-> 100,
                   transferring |-> 0, in_bank |-> 0]
    /\ ( /\ C3_Session
         /\ Len(emailSheet) = 2
         /\ C3_IsPayout(emailSheet[1])
         /\ C3_IsTransfer(emailSheet[2]) ) =>
         totals = [submitted |-> 0, pending_payout |-> 0, paid_out |-> 0,
                   transferring |-> 100, in_bank |-> 0]

\* The last stage of the scenario: session, payout and transfer are stored.
C3_Witness ==
    /\ C3_Session
    /\ Len(emailSheet) = 2
    /\ C3_IsPayout(emailSheet[1])
    /\ C3_IsTransfer(emailSheet[2])
    /\ totals.transferring = 100

-----------------------------------------------------------------------------
(* C10: the matcher never rewrites a paypal_transfer whose                 *)
(* estimatedArrival is already at or before now when it runs, whatever     *)
(* deposits are in the batch.                                              *)
C10_SettledNotRewritten ==
    [][ \A found \in SearchOrders(mailbox) :
          IsScanOf(found) =>
            LET pre == SavedRows(emailSheet, found)
            IN  \A i \in 1..Len(pre) :
                  (pre[i].source = "paypal_transfer" /\ IsArrived(pre[i], now))
                    => /\ i <= Len(emailSheet')
                       /\ emailSheet'[i].estimatedArrival = pre[i].estimatedArrival
      ]_vars

\* A settled transfer kept its date although a deposit of its amount, dated
\* before that date, is stored (and so was in the matcher's batch).
C10_Witness ==
    \E i, j \in 1..Len(emailSheet) :
        /\ emailSheet[i].source = "paypal_transfer"
        /\ IsArrived(emailSheet[i], now)
        /\ emailSheet[j].source = "chase_deposit"
        /\ emailSheet[j].amount = emailSheet[i].amount
        /\ emailSheet[j].receivedAt.t < emailSheet[i].estimatedArrival.t
        /\ \A h \in 1..Len(emailSheet) :
             emailSheet[h].source = "paypal_transfer" => h = i

-----------------------------------------------------------------------------
(* C2: for a single non-overlapping payout cycle (one session of positive  *)
(* earnings E, then one dataannotation event of E, then one                *)
(* paypal_transfer of E, then optionally one deposit of E), the five       *)
(* totals sum to exactly E at every point of the cycle.                    *)
RowsFrom(ep, src) == { i \in 1..Len(ep) : ep[i].source = src }

CycleStage(ep, src, E) ==
    /\ Cardinality(RowsFrom(ep, src)) <= 1
    /\ \A i \in RowsFrom(ep, src) : PositiveAmount(ep[i].amount) = E

\* One session of earnings E and a prefix of its cycle: the payout, then
\* the transfer, then the deposit, each at most once and each of amount E
SingleCycle(ws, ep) ==
    /\ Len(ws) = 1
    /\ PositiveAmount(ws[1].earnings) > 0
    /\ LET E == PositiveAmount(ws[1].earnings)
       IN  /\ CycleStage(ep, "dataannotation", E)
           /\ CycleStage(ep, "paypal_transfer", E)
           /\ CycleStage(ep, "chase_deposit", E)
           /\ RowsFrom(ep, "paypal_transfer") # {} => RowsFrom(ep, "dataannotation") # {}
           /\ RowsFrom(ep, "chase_deposit") # {} => RowsFrom(ep, "paypal_transfer") # {}

C2_SumIsEarnings ==
    SingleCycle(workSessions, emailSheet)
      => TotalOf(totals) = PositiveAmount(workSessions[1].earnings)

-----------------------------------------------------------------------------
(* C4 as stated: when a deposit of amount A with receivedAt = now is       *)
(* processed by the matcher while a paypal_transfer of amount A is in      *)
(* progress (estimatedArrival in the future), the matcher rewrites that    *)
(* transfer's estimatedArrival to the deposit's receivedAt, and the next   *)
(* calculateTotals counts A in in_bank and no longer in transferring,      *)
(* with submitted, pending_payout and paid_out unchanged.                  *)
C4_EveryTransferRewritten ==
    [][ \A found \in SearchOrders(mailbox) :
          IsScanOf(found) =>
            LET pre  == SavedRows(emailSheet, found)
                deps == ParsedDeposits(found)
                was  == calculateTotals(workSessions, pre, now)
            IN  \A k \in 1..Len(deps) : \A i \in 1..Len(pre) :
                  ( /\ deps[k].receivedAt = now
                    /\ IsTransferOf(pre[i], deps[k].amount)
                    /\ InFlight(pre[i], now) )
                  => /\ emailSheet'[i].estimatedArrival = Iso(deps[k].receivedAt)
                     /\ totals'.in_bank >= was.in_bank + deps[k].amount
                     /\ totals'.transferring <= was.transferring - deps[k].amount
                     /\ SameUpstream(totals', was)
      ]_vars

(* C4 amended: for every amount A, the matcher rewrites the earliest       *)
(* transfer of amount A in row order whose estimatedArrival is present and *)
(* not at or before now to the receivedAt of the first deposit of amount A *)
(* in its batch; that receivedAt being at or before now, the next          *)
(* calculateTotals counts A in in_bank and no longer in transferring, and  *)
(* submitted, pending_payout and paid_out are as they were.                *)
C4_FirstTransferRewritten ==
    [][ \A found \in SearchOrders(mailbox) :
          IsScanOf(found) =>
            LET pre  == SavedRows(emailSheet, found)
                deps == ParsedDeposits(found)
                was  == calculateTotals(workSessions, pre, now)
            IN  /\ Len(emailSheet') = Len(pre)
                /\ SameUpstream(totals', was)
                /\ \A A \in DepositAmounts :
                     LET I == { i \in 1..Len(pre) :
                                  IsTransferOf(pre[i], A) /\ Unsettled(pre[i], now) }
                         K == { k \in 1..Len(deps) : deps[k].amount = A }
                     IN  (I # {} /\ K # {}) =>
                           LET i0 == MinOf(I)
                               k0 == MinOf(K)
                           IN  /\ emailSheet'[i0].estimatedArrival =
                                     Iso(deps[k0].receivedAt)
                               /\ deps[k0].receivedAt <= now =>
                                    /\ IsArrived(emailSheet'[i0], now)
                                    /\ totals'.in_bank >= was.in_bank + A
                                    /\ totals'.transferring <= was.transferring - A
      ]_vars

\* A transfer whose message still states an arrival in the future is stored
\* with the receivedAt of a stored deposit of its amount, and is in the bank.
C4_Witness ==
    \E m \in 1..Len(mailbox) : \E i, j \in 1..Len(emailSheet) :
        /\ mailbox[m].kind = "pp"
        /\ mailbox[m].eta > now
        /\ emailSheet[i].paypalTransactionId = "pptx_" \o mailbox[m].msgId
        /\ emailSheet[j].source = "chase_deposit"
        /\ emailSheet[j].amount = emailSheet[i].amount
        /\ emailSheet[j].receivedAt = Iso(now)
        /\ emailSheet[i].estimatedArrival = emailSheet[j].receivedAt
        /\ totals.in_bank = PositiveAmount(emailSheet[i].amount)
        /\ totals.transferring = 0

-----------------------------------------------------------------------------
(* Vocabulary of the claims about one run of the matcher *)

\* The matcher considers the row: a transfer whose estimatedArrival is
\* present and not at or before the clock
Eligible(r, t) == r.source = "paypal_transfer" /\ Unsettled(r, t)

\* Rows of `post` whose estimatedArrival differs from that in `pre`
Rewritten(pre, post) ==
    { i \in 1..Len(pre) : post[i].estimatedArrival # pre[i].estimatedArrival }

\* Every message of the mailbox is stored: the last scan saw all of them
AllStored(found) == SavedRows(emailSheet, found) = emailSheet

-----------------------------------------------------------------------------
(* C11: the matcher is idempotent: after it has run on a set of deposits   *)
(* and stored transfers, running it again on the same deposits with no new *)
(* events rewrites no further transfer, also when several in-progress      *)
(* transfers share the deposit's amount.                                   *)
C11_SecondRunRewritesNothing ==
    [][ \A found \in SearchOrders(mailbox) :
          (IsScanOf(found) /\ AllStored(found)) => emailSheet' = emailSheet
      ]_vars

-----------------------------------------------------------------------------
(* C12: within one run of the matcher each deposit rewrites at most one    *)
(* transfer and each transfer is rewritten at most once, so the number of  *)
(* rewrites never exceeds the number of deposits in the batch; a matched   *)
(* deposit is removed from further matching in that run.                   *)
DepositDates(deps) == { deps[k].receivedAt : k \in 1..Len(deps) }

C12_OneRewritePerDeposit ==
    [][ \A found \in SearchOrders(mailbox) :
          IsScanOf(found) =>
            LET pre  == SavedRows(emailSheet, found)
                deps == ParsedDeposits(found)
                hit  == Rewritten(pre, emailSheet')
            IN  /\ Len(emailSheet') = Len(pre)
                /\ Cardinality(hit) <= Len(deps)
                /\ \A i \in hit :
                     \E k \in 1..Len(deps) :
                        /\ deps[k].amount = PositiveAmount(pre[i].amount)
                        /\ emailSheet'[i].estimatedArrival = Iso(deps[k].receivedAt)
                /\ \A A \in MatchAmounts \cup DepositAmounts : \A d \in DepositDates(deps) :
                     Cardinality({ i \in hit :
                                     /\ PositiveAmount(pre[i].amount) = A
                                     /\ emailSheet'[i].estimatedArrival = Iso(d) })
                       <= Cardinality({ k \in 1..Len(deps) :
                                          deps[k].amount = A /\ deps[k].receivedAt = d })
      ]_vars

\* Two deposits of one amount received at different times are stored, and
\* two transfers of that amount carry one deposit's date each.
C12_Witness ==
    \E d1, d2, i, j \in 1..Len(emailSheet) :
        /\ emailSheet[d1].source = "chase_deposit"
        /\ emailSheet[d2].source = "chase_deposit"
        /\ emailSheet[d1].amount = emailSheet[d2].amount
        /\ emailSheet[d1].receivedAt # emailSheet[d2].receivedAt
        /\ emailSheet[i].source = "paypal_transfer"
        /\ emailSheet[j].source = "paypal_transfer"
        /\ emailSheet[i].amount = emailSheet[d1].amount
        /\ emailSheet[j].amount = emailSheet[d1].amount
        /\ emailSheet[i].estimatedArrival = emailSheet[d1].receivedAt
        /\ emailSheet[j].estimatedArrival = emailSheet[d2].receivedAt

-----------------------------------------------------------------------------
(* C13: when several in-progress transfers have the same amount as a       *)
(* deposit, the matcher rewrites the one that comes earliest in row order; *)
(* the later ones of that amount keep their estimatedArrival unless        *)
(* another deposit of the same amount is in the batch.                     *)
Rank(S, x) == Cardinality({ y \in S : y <= x })

Kth(S, r) == CHOOSE x \in S : Rank(S, x) = r

\* The r-th open transfer of an amount gets the r-th deposit of that amount
\* and the open transfers beyond the number of such deposits are untouched.
C13_EarliestRowWins ==
    [][ \A found \in SearchOrders(mailbox) :
          IsScanOf(found) =>
            LET pre  == SavedRows(emailSheet, found)
                deps == ParsedDeposits(found)
            IN  \A A \in MatchAmounts \cup DepositAmounts :
                  LET I == { i \in 1..Len(pre) :
                               Eligible(pre[i], now) /\ PositiveAmount(pre[i].amount) = A }
                      K == { k \in 1..Len(deps) : deps[k].amount = A }
                  IN  \A i \in I :
                        IF Rank(I, i) <= Cardinality(K)
                        THEN emailSheet'[i].estimatedArrival =
                                Iso(deps[Kth(K, Rank(I, i))].receivedAt)
                        ELSE emailSheet'[i].estimatedArrival = pre[i].estimatedArrival
      ]_vars

\* One deposit of the amount is stored; of two transfers of that amount the
\* earlier row carries the deposit's date and the later row is still open.
C13_Witness ==
    \E i, j, d \in 1..Len(emailSheet) :
        /\ i < j
        /\ emailSheet[i].source = "paypal_transfer"
        /\ emailSheet[j].source = "paypal_transfer"
        /\ emailSheet[d].source = "chase_deposit"
        /\ emailSheet[i].amount = emailSheet[d].amount
        /\ emailSheet[j].amount = emailSheet[d].amount
        /\ emailSheet[i].estimatedArrival = emailSheet[d].receivedAt
        /\ Eligible(emailSheet[j], now)
        /\ Cardinality(RowsFrom(emailSheet, "chase_deposit")) = 1

-----------------------------------------------------------------------------
(* C14: the matcher compares amounts with an epsilon of 0.01: a deposit    *)
(* matches an in-progress transfer whenever the absolute difference of     *)
(* their amounts is below 0.01.                                            *)

\* 0.01 dollar, a dollar being 1000 thousandths
Epsilon == 1000 \div 100

Abs(n) == IF n < 0 THEN 0 - n ELSE n

\* A batch of one deposit and a store whose only open transfer is within
\* epsilon of it: the transfer gets the deposit's date.
C14_MatchesWithinEpsilon ==
    [][ \A found \in SearchOrders(mailbox) :
          IsScanOf(found) =>
            LET pre  == SavedRows(emailSheet, found)
                deps == ParsedDeposits(found)
                open == { i \in 1..Len(pre) : Eligible(pre[i], now) }
            IN  \A i \in open :
                  ( /\ Len(deps) = 1
                    /\ open = {i}
                    /\ Abs(PositiveAmount(pre[i].amount) - deps[1].amount) < Epsilon )
                  => emailSheet'[i].estimatedArrival = Iso(deps[1].receivedAt)
      ]_vars

-----------------------------------------------------------------------------
(* C15: a bank deposit that matches no in-progress transfer is still       *)
(* stored as its own event and changes no transfer's estimatedArrival;     *)
(* stored deposit events contribute to none of the five totals, so adding  *)
(* an unmatched deposit leaves calculateTotals unchanged.                  *)
IsNotDeposit(r) == r.source # "chase_deposit"

IsStoredDeposit(rows, cd) ==
    \E j \in 1..Len(rows) :
        /\ rows[j].source = "chase_deposit"
        /\ rows[j].daPaymentId = cd.chaseMessageId
        /\ rows[j].amount = Num(cd.amount)
        /\ rows[j].receivedAt = Iso(cd.receivedAt)

\* No deposit of the batch has the amount of a transfer the matcher considers
NothingMatches(pre, deps, t) ==
    \A k \in 1..Len(deps) : \A i \in 1..Len(pre) :
        Eligible(pre[i], t) => PositiveAmount(pre[i].amount) # deps[k].amount

C15_UnmatchedDepositIsInert ==
    [][ \A found \in SearchOrders(mailbox) :
          IsScanOf(found) =>
            LET pre  == SavedRows(emailSheet, found)
                deps == ParsedDeposits(found)
            IN  /\ \A k \in 1..Len(deps) : IsStoredDeposit(emailSheet', deps[k])
                /\ NothingMatches(pre, deps, now) =>
                     /\ \A i \in 1..Len(emailSheet) :
                          emailSheet'[i] = emailSheet[i]
                     /\ totals' = totals
                /\ totals' = calculateTotals(workSessions,
                                             SelectSeq(emailSheet', IsNotDeposit), now)
      ]_vars

\* A deposit is stored, an open transfer of another amount is as it was
\* first stored, and no transfer carries the deposit's date.
C15_Witness ==
    \E d, i \in 1..Len(emailSheet) :
        /\ emailSheet[d].source = "chase_deposit"
        /\ emailSheet[i] \in StoredTransfers
        /\ Eligible(emailSheet[i], now)
        /\ emailSheet[i].amount # emailSheet[d].amount
        /\ \A j \in RowsFrom(emailSheet, "paypal_transfer") :
             emailSheet[j] \in StoredTransfers
        /\ totals.transferring > 0
        /\ totals.in_bank = 0

-----------------------------------------------------------------------------
(* C16: across any sequence of scanEmails runs a stored payout event is    *)
(* never changed after it is created, except for the EstimatedArrival of a *)
(* paypal_transfer row rewritten by the matcher: source, amount,           *)
(* receivedAt and dedupe key of every row stay fixed, dataannotation and   *)
(* deposit rows are never modified, and scans remove no row.               *)
SameButArrival(a, b) ==
    /\ a.source = b.source
    /\ a.amount = b.amount
    /\ a.receivedAt = b.receivedAt
    /\ a.daPaymentId = b.daPaymentId
    /\ a.paypalTransactionId = b.paypalTransactionId

C16_RowsImmutable ==
    [][ /\ Len(emailSheet') >= Len(emailSheet)
        /\ \A i \in 1..Len(emailSheet) :
             /\ SameButArrival(emailSheet'[i], emailSheet[i])
             /\ emailSheet[i].source # "paypal_transfer" =>
                  emailSheet'[i] = emailSheet[i]
      ]_vars

\* The transfer stored first carries a deposit's date in place of its own
\* arrival date, next to a payout row and the deposit row.
C16_Witness ==
    \E p, d, i \in 1..Len(emailSheet) :
        /\ emailSheet[p].source = "dataannotation"
        /\ emailSheet[d].source = "chase_deposit"
        /\ emailSheet[i].paypalTransactionId = "t7"
        /\ emailSheet[i].estimatedArrival = emailSheet[d].receivedAt
        /\ SameButArrival(emailSheet[i],
                          Row("paypal_transfer", "", Num(100), Iso(Epoch), "t7", NoTime))

-----------------------------------------------------------------------------
(* Vocabulary of the claims about the cooldown *)

\* Every dataannotation row's receivedAt is a date or is missing
ReadableTimes(ep) ==
    \A i \in 1..Len(ep) :
        ep[i].source = "dataannotation" => ep[i].receivedAt.tag # "bad"

\* The receivedAt of the dataannotation rows that have one
PayoutTimes(ep) ==
    { ep[i].receivedAt.t :
        i \in { j \in 1..Len(ep) :
                  ep[j].source = "dataannotation" /\ ep[j].receivedAt.tag = "iso" } }

MaxOf(S) == CHOOSE x \in S : \A y \in S : x >= y

\* Seconds from t to the end of the cooldown of the latest payout
RemainingAt(ep, t) == MaxOf(PayoutTimes(ep)) + 72 * HOUR - t

\* The urgency a colour class stands for in this application: red marks
\* errors, yellow marks warnings, orange lies between them
UrgencyOf(color) ==
    CASE color = "text-red-400" -> "high"
      [] color = "text-orange-400" -> "medium"
      [] color = "text-yellow-400" -> "low"
      [] OTHER -> "none"

UrgencyRank(color) ==
    CASE UrgencyOf(color) = "high" -> 3
      [] UrgencyOf(color) = "medium" -> 2
      [] UrgencyOf(color) = "low" -> 1
      [] OTHER -> 0

\* The status is a countdown over readable payout times
CountingDown(ep, status) == ReadableTimes(ep) /\ ~status.available

-----------------------------------------------------------------------------
(* C17: getPayoutCooldown reports available exactly when there is no       *)
(* dataannotation event with a receivedAt, or now >= L + 72h where L is    *)
(* the latest receivedAt among the dataannotation events; older            *)
(* dataannotation events and events of other sources do not affect the     *)
(* result.  A last payout at now - 72h - 1s and one at exactly now - 72h   *)
(* are reported available.                                                 *)
C17_AvailableExactly ==
    ReadableTimes(emailSheet) =>
      ( cooldown.available <=>
          ( \/ PayoutTimes(emailSheet) = {}
            \/ now >= MaxOf(PayoutTimes(emailSheet)) + 72 * HOUR ) )

\* The latest of several payouts is exactly 72h old, a transfer received
\* later is stored too, and the payout is reported available.
C17_Witness ==
    /\ Cardinality(PayoutTimes(emailSheet)) >= 2
    /\ MaxOf(PayoutTimes(emailSheet)) = now - 72 * HOUR
    /\ \E i \in 1..Len(emailSheet) :
          emailSheet[i].source = "paypal_transfer" /\ emailSheet[i].receivedAt.t > now - 72 * HOUR
    /\ cooldown.available

-----------------------------------------------------------------------------
(* C18 as stated: when the payout is not yet available, more than 48h      *)
(* remaining gives the low-urgency tier, 24 to 48h the medium tier and     *)
(* less than 24h the high-urgency tier; the tier never moves toward lower  *)
(* urgency as remaining time shrinks.                                      *)
C18_UrgencyRisesAsTimeShrinks ==
    [][ /\ CountingDown(emailSheet', cooldown') =>
             LET r == RemainingAt(emailSheet', now')
             IN  /\ r > 48 * HOUR => UrgencyOf(cooldown'.color) = "low"
                 /\ (r >= 24 * HOUR /\ r <= 48 * HOUR) =>
                       UrgencyOf(cooldown'.color) = "medium"
                 /\ r < 24 * HOUR => UrgencyOf(cooldown'.color) = "high"
        /\ ( /\ emailSheet' = emailSheet
             /\ now' > now
             /\ CountingDown(emailSheet, cooldown)
             /\ CountingDown(emailSheet', cooldown') )
           => UrgencyRank(cooldown'.color) >= UrgencyRank(cooldown.color)
      ]_vars

(* C18 amended: the three tiers are set by the remaining time only, with   *)
(* thresholds 48h and 24h, but in the opposite direction: more than 48h    *)
(* remaining gives the high-urgency colour (red), more than 24h and up to  *)
(* 48h the medium one (orange), 24h or less the low one (yellow); the tier *)
(* never moves toward higher urgency as remaining time shrinks.            *)
C18_UrgencyFallsAsTimeShrinks ==
    [][ /\ CountingDown(emailSheet', cooldown') =>
             LET r == RemainingAt(emailSheet', now')
             IN  /\ r > 48 * HOUR => UrgencyOf(cooldown'.color) = "high"
                 /\ (r > 24 * HOUR /\ r <= 48 * HOUR) =>
                       UrgencyOf(cooldown'.color) = "medium"
                 /\ r <= 24 * HOUR => UrgencyOf(cooldown'.color) = "low"
        /\ ( /\ emailSheet' = emailSheet
             /\ now' > now
             /\ CountingDown(emailSheet, cooldown)
             /\ CountingDown(emailSheet', cooldown') )
           => UrgencyRank(cooldown'.color) <= UrgencyRank(cooldown.color)
      ]_vars

\* Exactly 24h remain and the tier is the lowest one.
C18_Witness ==
    /\ CountingDown(emailSheet, cooldown)
    /\ RemainingAt(emailSheet, now) = 24 * HOUR
    /\ now > Epoch
    /\ cooldown.color = "text-yellow-400"

-----------------------------------------------------------------------------
(* C19: given a most recent dataannotation event with receivedAt =         *)
(* now - 1h and a 72h cooldown, getPayoutCooldown reports not available,   *)
(* 71h remaining (label 2d 23h 0m), with high urgency.                     *)
C19_OneHourAfterPayout ==
    ( /\ ReadableTimes(emailSheet)
      /\ PayoutTimes(emailSheet) # {}
      /\ MaxOf(PayoutTimes(emailSheet)) = now - HOUR )
    => /\ ~cooldown.available
       /\ cooldown.text = "2d 23h 0m"
       /\ UrgencyOf(cooldown.color) = "high"

\* The payout of an hour ago is stored after an older one.
C19_Witness ==
    /\ Len(emailSheet) >= 2
    /\ emailSheet[Len(emailSheet)].source = "dataannotation"
    /\ emailSheet[Len(emailSheet)].receivedAt = Iso(now - HOUR)
    /\ emailSheet[1].source = "dataannotation"
    /\ emailSheet[1].receivedAt.tag = "iso"
    /\ emailSheet[1].receivedAt.t < now - HOUR
    /\ ReadableTimes(emailSheet)
    /\ cooldown.text = "2d 23h 0m"

-----------------------------------------------------------------------------
(* C20: for every start date and every n >= 1, addBusinessDays(start, n)   *)
(* terminates and returns a weekday (never Saturday or Sunday) strictly    *)
(* after start such that exactly n weekdays lie in (start, result]; the    *)
(* start date is never counted.  addBusinessDays(friday, 1) is the         *)
(* following Monday and addBusinessDays(monday, 3) is that week's          *)
(* Thursday.                                                               *)
IsWeekday(date) == date % 7 \in 1..5

WeekdaysIn(from, to) == Cardinality({ d \in (from + 1)..to : IsWeekday(d) })

Returned == addDays.pc = "returned"

C20_Result ==
    /\ IsWeekday(addDays.result)
    /\ addDays.result > addDays.date
    /\ WeekdaysIn(addDays.date, addDays.result) = addDays.days
    /\ (addDays.date % 7 = 5 /\ addDays.days = 1) =>
          addDays.result = addDays.date + 3
    /\ (addDays.date % 7 = 1 /\ addDays.days = 3) =>
          addDays.result = addDays.date + 3

C20_BusinessDays == <>Returned /\ [](Returned => C20_Result)

\* The call with a Friday and one day has returned the Monday after it.
C20_Witness ==
    /\ Returned
    /\ addDays.date % 7 = 5
    /\ addDays.days = 1
    /\ addDays.result % 7 = 1
    /\ addDays.result = addDays.date + 3

-----------------------------------------------------------------------------
(* C21: calculateTotals and getPayoutCooldown keep no state between        *)
(* invocations.  A call leaves the session and event collections it was    *)
(* given as they were, a second call with the same collections at the same *)
(* now returns what the first returned, and the results do not depend on   *)
(* the order of the records in the collections.                            *)
C21_ArgumentsKept ==
    /\ CollectionsAfterTotals(workSessions, emailSheet)
         = [workSessions |-> workSessions, emailPayouts |-> emailSheet]
    /\ EventsAfterCooldown(emailSheet) = emailSheet

C21_SameInAnyOrder ==
    \A p \in Orders(Len(workSessions)), q \in Orders(Len(emailSheet)) :
        /\ calculateTotals(Listed(workSessions, p), Listed(emailSheet, q), now)
             = totals
        /\ getPayoutCooldown(Listed(emailSheet, q), now) = cooldown

-----------------------------------------------------------------------------
(* C27: for a fixed set of sessions and events, as now advances the totals *)
(* of calculateTotals move only downstream: submitted never increases,     *)
(* transferring never increases and in_bank never decreases, and a         *)
(* transfer once counted in in_bank is never counted in transferring       *)
(* again.                                                                  *)

\* The stage in which calculateTotals counts the one event e at time t
CountedInBank(e, t) == calculateTotals(<<>>, <<e>>, t).in_bank > 0

CountedTransferring(e, t) == calculateTotals(<<>>, <<e>>, t).transferring > 0

TimeOnlyAdvances ==
    /\ now' > now
    /\ workSessions' = workSessions
    /\ emailSheet' = emailSheet

C27_Step ==
    TimeOnlyAdvances =>
        /\ totals'.submitted <= totals.submitted
        /\ totals'.transferring <= totals.transferring
        /\ totals'.in_bank >= totals.in_bank
        /\ \A i \in 1..Len(emailSheet) :
              CountedInBank(emailSheet[i], now) =>
                  /\ CountedInBank(emailSheet[i], now')
                  /\ ~CountedTransferring(emailSheet[i], now')

-----------------------------------------------------------------------------
(* C28: every stored paypal_transfer event with a positive amount is       *)
(* eventually counted in in_bank: for a fixed event set there is a time    *)
(* after which calculateTotals counts it in in_bank and no longer in       *)
(* transferring, whether or not a deposit ever matches it and whether or   *)
(* not its estimatedArrival was recorded.                                  *)
IsPositiveTransfer(e) ==
    e.source = "paypal_transfer" /\ PositiveAmount(e.amount) > 0

HasReadableArrival(e) == e.estimatedArrival.tag = "iso"

InBankForGood(e) == CountedInBank(e, now) /\ ~CountedTransferring(e, now)

C28_EveryTransferArrives ==
    <>[](\A i \in 1..Len(emailSheet) :
            IsPositiveTransfer(emailSheet[i]) => InBankForGood(emailSheet[i]))

(* As the code has it: a transfer with a positive amount and a readable    *)
(* estimatedArrival is counted in in_bank from that instant on, and no     *)
(* longer in transferring; a transfer whose estimatedArrival is missing or *)
(* unreadable is counted in transferring at every time.                    *)
C28_FromArrivalOn ==
    \A i \in 1..Len(emailSheet) :
        LET e == emailSheet[i]
        IN  IsPositiveTransfer(e) =>
              IF HasReadableArrival(e)
              THEN InBankForGood(e) <=> now >= e.estimatedArrival.t
              ELSE CountedTransferring(e, now) /\ ~CountedInBank(e, now)

C28_RecordedArrivalsArrive ==
    /\ <>[](\A i \in 1..Len(emailSheet) :
              (IsPositiveTransfer(emailSheet[i]) /\ HasReadableArrival(emailSheet[i]))
                  => InBankForGood(emailSheet[i]))
    /\ []C28_FromArrivalOn

\* At the last instant a transfer that was on its way a second earlier is
\* in in_bank, next to a transfer without an estimatedArrival that is still
\* in transferring.
C28_Witness ==
    /\ now = Epoch + MaxElapsed
    /\ Len(emailSheet) = 2
    /\ IsPositiveTransfer(emailSheet[1])
    /\ CountedTransferring(emailSheet[1], now - 1)
    /\ InBankForGood(emailSheet[1])
    /\ IsPositiveTransfer(emailSheet[2])
    /\ emailSheet[2].estimatedArrival = NoTime
    /\ totals.in_bank = PositiveAmount(emailSheet[1].amount)
    /\ totals.transferring = PositiveAmount(emailSheet[2].amount)

-----------------------------------------------------------------------------
(* C22: after any sequence of scanEmails runs executed one after another,  *)
(* the EmailPayouts store holds at most one row per (source, dedupe key),  *)
(* where the key is the DA payment id, the PayPal transaction id or the    *)
(* deposit message id; this holds when every scan returns the same emails  *)
(* again and when one scan returns the same key twice.                     *)
DedupeKey(r) ==
    IF r.source = "paypal_transfer" THEN r.paypalTransactionId ELSE r.daPaymentId

C22_OneRowPerKey ==
    \A i, j \in 1..Len(emailSheet) :
        (/\ emailSheet[i].source = emailSheet[j].source
         /\ DedupeKey(emailSheet[i]) = DedupeKey(emailSheet[j])) => i = j

\* Two messages of the mailbox state the same transaction id, a scan has
\* found both, and the store holds one row of that key; every further scan
\* finds these messages again.
C22_Witness ==
    /\ Len(mailbox) = 2
    /\ mailbox[1].kind = "pp" /\ mailbox[1].extId = "K1"
    /\ mailbox[2].kind = "pp" /\ mailbox[2].extId = "K1"
    /\ Len(emailSheet) = 1
    /\ emailSheet[1].source = "paypal_transfer"
    /\ DedupeKey(emailSheet[1]) = "K1"
    /\ \A found \in SearchOrders(mailbox) : AllStored(found)

-----------------------------------------------------------------------------
(* C23: when two scanEmails executions overlap in time (for example the    *)
(* hourly trigger and a manual scan request), the EmailPayouts store still *)
(* ends with at most one row per (source, dedupe key): no interleaving of  *)
(* their read-existing and append steps stores the same email twice.       *)
KeysStored == { <<emailSheet[i].source, DedupeKey(emailSheet[i])>> : i \in 1..Len(emailSheet) }

C23_NoDuplicateUnderOverlap == Cardinality(KeysStored) = Len(emailSheet)

-----------------------------------------------------------------------------
(* C25: the Deposit Matcher is run only on the batch of newly-observed     *)
(* bank deposits: a deposit that an earlier scan already recorded is not   *)
(* offered for matching again, so a transfer that appears after that       *)
(* deposit was first recorded is never rewritten to that deposit's         *)
(* receivedAt.                                                             *)

\* The deposits among `found` that the sheet does not hold yet
NewDeposits(found) ==
    SelectSeq(ParsedDeposits(found),
              LAMBDA cd : (cd.chaseMessageId \o "_chase")
                              \notin getExistingEmailPayouts(emailSheet))

C25_OldDepositsNotOffered ==
    [][ \A found \in SearchOrders(mailbox) :
          (IsScanOf(found) /\ NewDeposits(found) = <<>>) =>
              Rewritten(SavedRows(emailSheet, found), emailSheet') = {}
      ]_vars

-----------------------------------------------------------------------------
(* C24: double-submit prevention.  If a form's submit handler (session,    *)
(* payment, goal or allocation) is invoked again while an earlier          *)
(* invocation is still awaiting its save, the later invocation performs no *)
(* save, so any number of overlapping submits creates exactly one record;  *)
(* once the first handler finishes, with success or error, submitting is   *)
(* possible again.                                                         *)
Awaiting == handlers # <<>>

C24_OneHandler ==
    /\ Len(handlers) <= 1
    /\ submitting <=> Awaiting
    /\ saves.save + saves.update = saves.done + Len(handlers)

C24_NoSaveWhileAwaiting ==
    Awaiting => /\ saves'.save = saves.save
                /\ saves'.update = saves.update
                /\ Len(handlers') <= Len(handlers)

C24_DoubleSubmitPrevented == []C24_OneHandler /\ [][C24_NoSaveWhileAwaiting]_vars

\* A submit was made while a handler was awaiting and returned at the
\* guard; that handler has finished, a later submit has saved a second
\* record, and its handler has finished too.
C24_Witness ==
    /\ saves.dropped = 1
    /\ saves.save = 2
    /\ saves.done = 2
    /\ ~submitting

-----------------------------------------------------------------------------
(* C30: a record for which SheetsAPI.save returned is returned by every    *)
(* later SheetsAPI.getAll of that tab until remove is called for it,       *)
(* whatever remote requests fail or succeed in between; in particular a    *)
(* record saved while the remote POST failed is not dropped by a later     *)
(* successful remote fetch, and an empty remote result never replaces      *)
(* non-empty local data.                                                   *)
Ids(records) == { records[i] : i \in 1..Len(records) }

\* The step is a call of getAll
IsGetAll == kept' = kept /\ remote' = remote /\ issued' = issued

C30_SavedRecordsListed == [][IsGetAll => kept \subseteq Ids(listed')]_vars

-----------------------------------------------------------------------------
(* C26: in the stateful pipeline, Pipeline.autoAdvance, App.advancePayment *)
(* and matchAndAdvancePipeline only ever move a payment's status forward   *)
(* along submitted -> pending_payout -> paid_out -> transferring ->        *)
(* in_bank: none moves a payment to an earlier stage, App.advancePayment   *)
(* moves exactly one stage, autoAdvance moves only submitted payments      *)
(* whose payoutExpectedAt has passed, and a payment in in_bank is never    *)
(* changed by any of them.                                                 *)
C26_Step ==
    \A i \in 1..Len(payments) :
        /\ i <= Len(payments')
        /\ payments'[i].id = payments[i].id
        /\ IndexOf(payments'[i].status) >= IndexOf(payments[i].status)
        /\ payments[i].status = "in_bank" => payments'[i] = payments[i]

C26_OnlyForward == [][C26_Step]_vars

-----------------------------------------------------------------------------
(* C29: in the stateful backend, running scanEmails again over the same    *)
(* mailbox contents changes nothing: one DA payout email advances or       *)
(* creates at most one payment over all scans and one PayPal transfer      *)
(* email advances at most one payment over all scans, also when several    *)
(* payments have the same amount.                                          *)

\* Every message of `found` is in EmailPayouts: an earlier scan saw them all
SeenBefore(found) == StatefulSavedRows(emailSheet, found) = emailSheet

C29_RescanChangesNothing ==
    \A found \in SearchOrders(mailbox) :
        SeenBefore(found) => ScannedPayments(payments, found) = payments

====
